---- MODULE Spec2Model ----
(***************************************************************************)
(* Model of the tool-invocation agent loop of                              *)
(* src/app/api/agents/[id]/route.ts: the ToolRegistry, the Agent           *)
(* constructor with its built-in finish tool, Agent.parseToolCall,         *)
(* Agent.run and Agent.stop.                                               *)
(*                                                                         *)
(* One Agent instance ("A1") is followed through one call of run.  A       *)
(* second instance ("A2") may be constructed on the same registry at any   *)
(* suspension point of the run (JavaScript is single threaded: other code  *)
(* runs only while run is suspended at an await or a yield).  The caller   *)
(* is assumed to drain the generator.                                      *)
(***************************************************************************)
EXTENDS Integers, Sequences, FiniteSets, TLC

(***************************************************************************)
(* Bounds of the model                                                     *)
(***************************************************************************)
\* the model's turn text is free in the first MaxVaried turns of a run; in
\* later turns the model repeats the plain calculator call and no tool and
\* no observer raises (stop(), registrations and a failure of the model
\* stream remain possible in every turn)
MaxVaried == 2
\* largest explicitly configured maxIterations
MaxConfigured == 2

(***************************************************************************)
(* Data                                                                    *)
(***************************************************************************)
Agents == {"A1", "A2"}

\* config.maxIterations is optional: Absent stands for `undefined`
Absent == -1

DefaultMaxIterations == 10

ConfiguredValues == {Absent} \cup (0 .. MaxConfigured)

\* JavaScript truthiness of an optional number
Truthy(n) == n # Absent /\ n # 0

\* `config.maxIterations || 10`
ConstructorMaxIterations(configuredMax) ==
  IF Truthy(configuredMax) THEN configuredMax ELSE DefaultMaxIterations

Fields == {"reason", "operation", "a", "b"}

\* An abstract JSON value of a parameter field: absent, a number, a string
\* that is one of the calculator's operations ("op"), or another string.
EmptyParams == [f \in Fields |-> "absent"]

FinishParams == [EmptyParams EXCEPT !["reason"] = "str"]

CalcParams ==
  [EmptyParams EXCEPT !["operation"] = "op", !["a"] = "num", !["b"] = "num"]

CalcParamsBadB == [CalcParams EXCEPT !["b"] = "str"]

\* zod schemas: z.string(), z.number(), z.enum([...]) per field
FinishSchema == [f \in {"reason"} |-> "str"]

CalculatorSchema ==
  [f \in {"operation", "a", "b"} |->
     IF f = "operation" THEN "op" ELSE "num"]

\* does a value of kind `given` satisfy a schema node of kind `required`
Accepts(required, given) ==
  \/ required = given
  \/ required = "str" /\ given = "op"

\* schema.parse(value): every failing field is reported (zod does not stop
\* at the first issue); unknown keys are stripped
ZodParse(schema, value) ==
  LET issues == {f \in DOMAIN schema : ~Accepts(schema[f], value[f])}
  IN  [ok |-> issues = {}, issues |-> issues]

\* A ToolDefinition.  `stops` names the Agent whose shouldStop flag the
\* execute closure sets ("none" for a tool that is not a built-in finish).
FinishTool(agent) ==
  [id |-> "finish", name |-> "Finish", schema |-> FinishSchema,
   stops |-> agent]

calculatorTool ==
  [id |-> "calculator", name |-> "Calculator", schema |-> CalculatorSchema,
   stops |-> "none"]

\* a tool some other subsystem registers under the id `finish`
otherFinishTool ==
  [id |-> "finish", name |-> "Other", schema |-> FinishSchema,
   stops |-> "none"]

(***************************************************************************)
(* Tool registry: a Map from id to ToolDefinition                          *)
(***************************************************************************)
EmptyRegistry == [id \in {} |-> calculatorTool]

\* `undefined` where a ToolDefinition is expected
NoTool == [id |-> "", name |-> "", schema |-> FinishSchema, stops |-> "none"]

\* a register that keeps the tool an id already has
RegistryRegisterKeepFirst(reg, tool) ==
  [id \in DOMAIN reg \cup {tool.id} |->
     IF id \in DOMAIN reg THEN reg[id] ELSE tool]

\* this.tools.set(tool.id, tool)
RegistryRegister(reg, tool) ==
  [id \in DOMAIN reg \cup {tool.id} |->
     IF id = tool.id THEN tool ELSE reg[id]]

RegistryHas(reg, id) == id \in DOMAIN reg

\* this.tools.get(id): the tool stored under the id, or undefined
RegistryGet(reg, id) == IF id \in DOMAIN reg THEN reg[id] ELSE NoTool

\* getAll().map(t => t.id)
RegistryIds(reg) == DOMAIN reg

(***************************************************************************)
(* Turn text: a sequence of segments, each prose or a fenced block         *)
(***************************************************************************)
Prose == [kind |-> "prose", tool |-> "", hasParams |-> FALSE,
          parameters |-> EmptyParams]

\* a fenced block whose content JSON.parse rejects
Malformed == [kind |-> "malformed", tool |-> "", hasParams |-> FALSE,
              parameters |-> EmptyParams]

\* a fenced block holding valid JSON without a `tool` field
NonTool == [kind |-> "nontool", tool |-> "", hasParams |-> FALSE,
            parameters |-> EmptyParams]

Call(tool, params) == [kind |-> "call", tool |-> tool, hasParams |-> TRUE,
                       parameters |-> params]

\* {"tool": ...} without a `parameters` field
CallNoParams(tool) == [kind |-> "call", tool |-> tool, hasParams |-> FALSE,
                       parameters |-> EmptyParams]

IsFenced(seg) == seg.kind # "prose"

PlainText == <<Call("calculator", CalcParams)>>

TurnTexts ==
  { <<Prose>>,
    PlainText,
    <<Prose, Call("finish", FinishParams)>>,
    <<Malformed, Call("calculator", CalcParams)>>,
    <<NonTool, Call("finish", FinishParams)>>,
    <<Call("calculator", CalcParams), Call("finish", FinishParams)>>,
    <<Call("finish", FinishParams), Call("calculator", CalcParams)>>,
    <<CallNoParams("calculator")>>,
    <<Call("calculator", CalcParamsBadB)>>,
    <<Call("lookup", CalcParams)>> }

NoToolCall == [found |-> FALSE, tool |-> "", parameters |-> EmptyParams]

\* index of the first fenced block of the text, 0 when there is none:
\* content.match(/```(?:json)?\s*\n([\s\S]*?)\n```/) without the g flag
FirstFenced(content) ==
  IF \E i \in 1 .. Len(content) : IsFenced(content[i])
  THEN CHOOSE i \in 1 .. Len(content) :
         /\ IsFenced(content[i])
         /\ \A j \in 1 .. (i - 1) : ~IsFenced(content[j])
  ELSE 0

\* index of the last fenced block of the text, 0 when there is none
LastFenced(content) ==
  IF \E i \in 1 .. Len(content) : IsFenced(content[i])
  THEN CHOOSE i \in 1 .. Len(content) :
         /\ IsFenced(content[i])
         /\ \A j \in (i + 1) .. Len(content) : ~IsFenced(content[j])
  ELSE 0

\* parseToolCall as it would be with a greedy or global match: the last
\* fenced block of the turn is taken
parseToolCallLastBlock(content) ==
  LET i == LastFenced(content) IN
  IF i = 0 THEN NoToolCall
  ELSE IF content[i].kind = "call"
       THEN [found |-> TRUE, tool |-> content[i].tool,
             parameters |-> IF content[i].hasParams
                            THEN content[i].parameters ELSE EmptyParams]
       ELSE NoToolCall

\* Agent.parseToolCall
parseToolCall(content) ==
  LET i == FirstFenced(content) IN
  IF i = 0 THEN NoToolCall
  ELSE IF content[i].kind = "malformed" THEN NoToolCall
  ELSE IF content[i].kind = "call"
       THEN [found |-> TRUE, tool |-> content[i].tool,
             parameters |-> IF content[i].hasParams
                            THEN content[i].parameters ELSE EmptyParams]
       ELSE NoToolCall

(***************************************************************************)
(* Messages and pending continuations                                      *)
(***************************************************************************)
Msg(role, kind, text, tool, ids) ==
  [role |-> role, kind |-> kind, text |-> text, tool |-> tool, ids |-> ids]

UserInputMsg == Msg("user", "input", <<>>, "", {})

AssistantMsg(content) == Msg("assistant", "turn", content, "", {})

\* the unknown-tool message without the list of registered ids
UnknownToolMsgNoIds(id, reg) == Msg("user", "unknown", <<>>, id, {})

\* `Error: Tool '<id>' not found. Available tools: <ids>`
UnknownToolMsg(id, reg) == Msg("user", "unknown", <<>>, id, RegistryIds(reg))

\* the validation message built from error.errors[0] alone
ValidationMsgFirstIssue(id, issues) ==
  Msg("user", "validation", <<>>, id,
      IF issues = {} THEN {} ELSE {CHOOSE f \in issues : TRUE})

\* `Parameter validation failed for tool '<id>': <path: message, ...>`
ValidationMsg(id, issues) == Msg("user", "validation", <<>>, id, issues)

\* `Error executing tool '<id>': <message>`
ExecErrorMsg(id) == Msg("user", "execError", <<>>, id, {})

\* `Tool '<id>' returned: <JSON>`
ToolResultMsg(id) == Msg("user", "result", <<>>, id, {})

(***************************************************************************)
(* Council session: the data of CouncilSessionState                        *)
(***************************************************************************)
\* the largest maxRounds an initialize request carries
MaxRoundsRequested == 2

\* the largest round a synthesize request carries
MaxRoundArg == 4

\* the number of deliberations a session is followed for
MaxDeliberations == 2

\* the largest consensusScore and confidenceLevel a complete request carries
MaxScore == 1

DefaultMaxRounds == 3

\* `undefined` where a string is expected
Undefined == "undefined"

Questions == {"q1", "q2"}

Decisions == {"approve", "reject"}

Scores == 0 .. MaxScore

CouncilAgentIds == {"a1", "a2"}

\* the bodies of the initialize requests: maxRounds is optional
\* the participants an initialize request names; none when it names none
AgentIdLists == {<<>>, <<"a1", "a2">>}

InitializeData ==
  [question : Questions, maxRounds : {Absent} \cup (0 .. MaxRoundsRequested),
   agentIds : AgentIdLists]

RoundArgs == 0 .. MaxRoundArg

\* `null`: no session state in memory, or nothing stored under 'session'
NoSession ==
  [exists |-> FALSE, question |-> "", stage |-> "none", maxRounds |-> 0,
   agentIds |-> <<>>, currentRound |-> 0, decision |-> Undefined, consensusScore |-> Absent,
   confidenceLevel |-> Absent, deliberations |-> <<>>]

(***************************************************************************)
(* Knowledge pack: the data of KnowledgePack.ts                            *)
(***************************************************************************)
\* the most entries a pack is given
MaxEntries == 3

\* the latest reading of the clock; readings are 0 .. MaxNow
MaxNow == 1

\* an optional array field (tags?, sourceFiles?, sourceArtifacts?): absent,
\* or present with its elements in order
NoList == [present |-> FALSE, items |-> <<>>]

List(items) == [present |-> TRUE, items |-> items]

\* `list || []`: an array, even an empty one, is truthy
OrEmpty(list) == IF list.present THEN list.items ELSE <<>>

\* Array.from(new Set(seq)): the first occurrence of each element, in order
RECURSIVE Dedup(_)
Dedup(seq) ==
  IF seq = <<>> THEN <<>>
  ELSE LET front == Dedup(SubSeq(seq, 1, Len(seq) - 1))
           e == seq[Len(seq)]
       IN  IF \E i \in DOMAIN front : front[i] = e THEN front
           ELSE Append(front, e)

\* seq.filter(e => !drop.has(e))
RECURSIVE Without(_, _)
Without(seq, drop) ==
  IF seq = <<>> THEN <<>>
  ELSE LET rest == Without(Tail(seq), drop)
       IN  IF Head(seq) \in drop THEN rest ELSE <<Head(seq)>> \o rest

\* the elements of a sequence, as `new Set(seq)` holds them
Elements(seq) == {seq[i] : i \in DOMAIN seq}

\* the bodies of the /create requests: one names nothing optional, one
\* carries tags and source files with a duplicate and no title
CreatePayloads ==
  { [title |-> "T", tags |-> NoList, sourceFiles |-> NoList,
     sourceArtifacts |-> NoList],
    [title |-> "", tags |-> List(<<"t1", "t1">>),
     sourceFiles |-> List(<<"f1", "f1">>), sourceArtifacts |-> NoList] }

\* the bodies of the /add-entry requests
EntryInputs ==
  { [content |-> "Xy", agentId |-> "a1", score |-> 2, sources |-> <<"F1">>],
    [content |-> "z", agentId |-> "a2", score |-> 4, sources |-> <<>>] }

\* the `updates` of updateEntry
EntryUpdates == { [score |-> 6] }

\* the entry indexes the callers pass: from one below the range to one
\* past the last index of a full pack
EntryIndexes == -1 .. MaxEntries

\* the bodies of the /finalize requests, with and without an embeddingId
FinalizeInputs ==
  { [content |-> "synth", consensusScore |-> 7, embeddingId |-> "emb1"],
    [content |-> "synth", consensusScore |-> 7, embeddingId |-> Undefined] }

\* the bodies of the /update requests: partial states, of any fields
UpdatePayloads ==
  { [tags |-> List(<<"t1", "t1">>), createdAt |-> 0],
    [content |-> "synth", consensusScore |-> 7, entries |-> <<>>] }

\* the arguments of addTags and removeTags
TagArgs == { <<"t1">> }

\* the arguments of addSources; an omitted list defaults to []
SourceArgs == { [files |-> <<>>, artifacts |-> <<"r1", "r1">>] }

\* the arguments of updateConsensusScore
ConsensusScoreArgs == { 7 }

\* the queries of searchEntries
Queries == { "X" }

\* s.toLowerCase(), over the strings of entries and queries
ToLowerCase(s) ==
  CASE s = "Xy" -> "xy"
    [] s = "X" -> "x"
    [] s = "F1" -> "f1"
    [] OTHER -> s

\* s.includes(q), over the lower-cased strings of entries and queries
Includes(s, q) ==
  \/ s = q
  \/ <<s, q>> \in { <<"xy", "x">> }

\* packState = null, and a storage that holds nothing under 'pack'
NoPack ==
  [exists |-> FALSE, title |-> "", content |-> "", consensusScore |-> 0,
   embeddingId |-> Undefined, tags |-> NoList, sourceFiles |-> NoList,
   sourceArtifacts |-> NoList, entries |-> <<>>, createdAt |-> 0,
   updatedAt |-> 0]

\* the body of a response that carries no statistics
NoStats ==
  [entryCount |-> 0, averageScore |-> [sum |-> 0, by |-> 0],
   sourceFileCount |-> 0, sourceArtifactCount |-> 0, tagCount |-> 0]

\* what a call returned: a Response with its status (kind "state" carries
\* JSON of the whole state, "part" JSON of one entry, of the tags, of the
\* sources or of the score alone, "text" a message, "stats" the
\* statistics), or, from searchEntries, a bare array
PackResponse(kind, status) ==
  [kind |-> kind, status |-> status, stats |-> NoStats, found |-> <<>>]

NoResponse == PackResponse("none", 0)

\* the most requests in flight at once
MaxRequests == 3

\* a request slot that holds no request; of a request, `op` is the route,
\* `at` the await its handler is suspended at, and `value` what its pending
\* storage.get reads, then, in Counter.fetch, the local `value`
NoRequest == [op |-> "none", at |-> "none", value |-> 0]

\* the content the r-th request carries in its body
RequestContent(r) == <<"c1", "c2", "c3", "c4">>[r]

\* the slots of the requests, in order of arrival
Slots == 1 .. MaxRequests

NoRequests == [r \in Slots |-> NoRequest]

\* what a CouncilSession call returned: a Response with its status, kind
\* "state" carrying JSON of the whole state and "text" a message
SessionResponse(kind, status) == [kind |-> kind, status |-> status]

NoSessionResponse == SessionResponse("none", 0)

\* storage.get('value') answers undefined while nothing was put
NoValue == [stored |-> FALSE, value |-> 0]

\* what storage holds once put('value', n) was called
Value(n) == [stored |-> TRUE, value |-> n]

\* the most requests a Counter is followed for
MaxCounterRequests == 4

\* the paths requested of the Counter: its three routes and one it has not
CounterPaths == {"/increment", "/decrement", "/", "/other"}

DigitChars == <<"0", "1", "2", "3", "4", "5", "6", "7", "8", "9">>

\* the decimal digits of n >= 0
RECURSIVE Digits(_)
Digits(n) ==
  IF n < 10 THEN <<DigitChars[n + 1]>>
  ELSE Digits(n \div 10) \o <<DigitChars[(n % 10) + 1]>>

\* value.toString() of an integer
NumberToString(n) == IF n < 0 THEN <<"-">> \o Digits(0 - n) ELSE Digits(n)

\* the body 'Not found'
NotFoundText == <<"N", "o", "t", " ", "f", "o", "u", "n", "d">>

IsDigit(c) == \E d \in DOMAIN DigitChars : DigitChars[d] = c

DigitValue(c) == (CHOOSE d \in DOMAIN DigitChars : DigitChars[d] = c) - 1

\* the value of the longest prefix of digits of text, and whether it is
\* empty
DigitPrefix(text) ==
  LET P[i \in 0 .. Len(text)] ==
        IF i = 0 THEN [open |-> TRUE, any |-> FALSE, value |-> 0]
        ELSE IF P[i - 1].open /\ IsDigit(text[i])
        THEN [open |-> TRUE, any |-> TRUE,
              value |-> P[i - 1].value * 10 + DigitValue(text[i])]
        ELSE [P[i - 1] EXCEPT !.open = FALSE]
  IN  P[Len(text)]

\* parseInt(text, 10): an optional sign and the digits that follow it; NaN
\* when there is none
ParseInt(text) ==
  LET negative == text # <<>> /\ Head(text) = "-"
      prefix == DigitPrefix(IF negative THEN Tail(text) ELSE text)
  IN  [nan |-> ~prefix.any,
       value |-> IF negative THEN 0 - prefix.value ELSE prefix.value]

NoCounterResponse == [status |-> 0, body |-> <<>>]

\* the parameters handed to the incrementCounter tool: amount is optional
IncrementCounterParams ==
  {[given |-> FALSE, amount |-> 0], [given |-> TRUE, amount |-> 1],
   [given |-> TRUE, amount |-> 2]}

NoToolResult == [kind |-> "none", amount |-> 0, nan |-> FALSE, value |-> 0]

\* the most handler calls followed statement by statement
MaxCalls == 1

NoCall == [object |-> "none", at |-> "none", puts |-> 0, made |-> 0]

(***************************************************************************)
(* State                                                                   *)
(***************************************************************************)
VARIABLES
  configured,    \* config.maxIterations as passed to the constructor of A1
  maxIterations, \* this.config.maxIterations of A1
  registry,      \* the ToolRegistry shared by the agents
  shouldStop,    \* this.shouldStop of each Agent instance
  messages,      \* this.messages of A1
  pc,            \* where A1's run stands
  iterations,    \* local `iterations` of run
  stream,        \* chunks of result.textStream not yet delivered
  fullContent,   \* local `fullContent` of run
  toolCall,      \* local `toolCall` of run
  tool,          \* local `tool` of run
  pending,       \* what the generator does when resumed after its yield
  fragments,     \* the fragments run has yielded so far
  modelCalls,    \* number of streamText invocations of the run
  events,        \* observer and execute calls of the current iteration
  stopAt,        \* where the first stop() of the run arrived
  thrown,        \* the error run has raised to its caller, if any
  turnStart,     \* lengths of messages and fragments when the turn began
  runs,          \* number of times run has been started on A1
  got,           \* the array the last getMessages call returned
  tools,         \* this.tools of a ToolRegistry of its own
  registerCalls, \* the tools passed to its register, in call order
  sessionState,  \* this.sessionState of the CouncilSession object
  storage,       \* the value its durable storage holds under 'session'
  sessionResponse, \* what the last CouncilSession call returned
  packState,     \* this.packState of the KnowledgePack object
  packStorage,   \* the value its durable storage holds under 'pack'
  packResponse,  \* what the last KnowledgePack call returned to its caller
  counterValue,  \* what the Counter's durable storage holds under 'value'
  counterTrace,  \* the paths requested of the Counter one after the other
  counterResponse, \* what the Counter returned to the last of them
  toolResult,    \* what the last incrementCounter execution returned
  requests,      \* the requests in flight against the three objects
  call           \* a handler followed statement by statement to its put

agentVars == <<configured, maxIterations, registry, shouldStop, messages, pc,
               iterations, stream, fullContent, toolCall, tool, pending,
               fragments, modelCalls, events, stopAt, thrown, turnStart,
               runs, got>>

registryVars == <<tools, registerCalls>>

councilVars == <<sessionState, storage, sessionResponse>>

packVars == <<packState, packStorage, packResponse>>

counterVars == <<counterValue, counterTrace, counterResponse, toolResult>>

vars == <<agentVars, registryVars, councilVars, packVars, counterVars,
          requests, call>>

\* what the code of one object never touches: the state of the others
otherThanAgent == <<registryVars, councilVars, packVars, counterVars,
                    requests, call>>

otherThanRegistry == <<agentVars, councilVars, packVars, counterVars,
                       requests, call>>

otherThanCouncil == <<agentVars, registryVars, packVars, counterVars,
                      requests, call>>

otherThanPack == <<agentVars, registryVars, councilVars, counterVars,
                   requests, call>>

otherThanCounter == <<agentVars, registryVars, councilVars, packVars,
                      requests, call>>

NoPending == [kind |-> "none", issues |-> {}]

NoStop == [iter |-> 0, at |-> "none"]

\* run has not started, or is suspended at an await or a yield: the points
\* at which other code can act before the run ends
Suspended == {"idle", "stream", "exec", "yield"}

\* new ToolRegistry(), register(calculatorTool), then
\* new Agent({toolRegistry, maxIterations}) for A1
Init ==
  /\ configured \in ConfiguredValues
  /\ maxIterations = ConstructorMaxIterations(configured)
  /\ registry = RegistryRegister(RegistryRegister(EmptyRegistry,
                                   calculatorTool), FinishTool("A1"))
  /\ shouldStop = [a \in Agents |-> FALSE]
  /\ messages = <<>>
  /\ pc = "idle"
  /\ iterations = 0
  /\ stream = <<>>
  /\ fullContent = <<>>
  /\ toolCall = NoToolCall
  /\ tool = NoTool
  /\ pending = NoPending
  /\ fragments = <<>>
  /\ modelCalls = 0
  /\ events = <<>>
  /\ stopAt = NoStop
  /\ thrown = "none"
  /\ turnStart = [messages |-> 0, fragments |-> 0]
  /\ runs = 0
  /\ got = <<>>
  /\ tools = EmptyRegistry
  /\ registerCalls = <<>>
  /\ sessionState = NoSession
  /\ storage = NoSession
  /\ sessionResponse = NoSessionResponse
  /\ packState = NoPack
  /\ packStorage = NoPack
  /\ packResponse = NoResponse
  /\ counterValue = NoValue
  /\ counterTrace = <<>>
  /\ counterResponse = NoCounterResponse
  /\ toolResult = NoToolResult
  /\ requests = NoRequests
  /\ call = NoCall

\* is turn n one of the turns in which the model, the tools and the
\* observers behave freely: the first MaxVaried turns of the first run
VariedTurn(n) == n <= MaxVaried /\ runs <= 1

(***************************************************************************)
(* Operations on the registry and on the agents, by code outside run       *)
(***************************************************************************)
\* new Agent({toolRegistry: registry, ...}) for A2: registerFinishTool
ConstructAgent2 ==
  /\ pc \in Suspended
  /\ registry' = RegistryRegister(registry, FinishTool("A2"))
  /\ shouldStop' = [shouldStop EXCEPT !["A2"] = FALSE]
  /\ UNCHANGED <<configured, maxIterations, messages, pc, iterations, stream,
                 fullContent, toolCall, tool, pending, fragments, modelCalls,
                 events, stopAt, thrown, turnStart, runs, got>>
  /\ UNCHANGED otherThanAgent

\* registry.register(t)
Register(t) ==
  /\ pc \in Suspended
  /\ registry' = RegistryRegister(registry, t)
  /\ UNCHANGED <<configured, maxIterations, shouldStop, messages, pc,
                 iterations, stream, fullContent, toolCall, tool, pending,
                 fragments, modelCalls, events, stopAt, thrown, turnStart,
                 runs, got>>
  /\ UNCHANGED otherThanAgent

\* Agent.stop of A1
Stop ==
  /\ pc \in Suspended
  /\ shouldStop' = [shouldStop EXCEPT !["A1"] = TRUE]
  /\ stopAt' = IF stopAt.at = "none"
               THEN [iter |-> iterations, at |-> pc] ELSE stopAt
  /\ UNCHANGED <<configured, maxIterations, registry, messages, pc,
                 iterations, stream, fullContent, toolCall, tool, pending,
                 fragments, modelCalls, events, thrown,
                 turnStart, runs, got>>
  /\ UNCHANGED otherThanAgent

(***************************************************************************)
(* Agent.run                                                               *)
(***************************************************************************)
\* the generator suspends at `yield <fragment>`
Yield(kind, issues) ==
  /\ fragments' = Append(fragments, kind)
  /\ pending' = [kind |-> kind, issues |-> issues]
  /\ pc' = "yield"
  /\ thrown' = thrown

\* a catch block that handles ZodError and rethrows everything else
TryCatchZodOnly(error) ==
  IF error = "ZodError" THEN "validation" ELSE "uncaught"

\* the catch block of lines 825-843: the fragment it yields for an error
\* thrown inside the try block of lines 792-824
TryCatch(error) ==
  IF error = "ZodError" THEN "validation" ELSE "execError"

\* an error is thrown inside the try block
Throw(error, issues) ==
  LET handler == TryCatch(error) IN
  IF handler = "uncaught"
  THEN /\ pc' = "raised"
       /\ thrown' = error
       /\ UNCHANGED <<fragments, pending>>
  ELSE Yield(handler, issues)

\* first next() of the generator: lines 734-740
Run ==
  /\ pc = "idle"
  /\ shouldStop' = [shouldStop EXCEPT !["A1"] = FALSE]
  /\ messages' = Append(messages, UserInputMsg)
  /\ iterations' = 0
  /\ pc' = "top"
  /\ stopAt' = NoStop
  /\ runs' = runs + 1
  /\ UNCHANGED <<configured, maxIterations, registry, stream, fullContent,
                 toolCall, tool, pending, fragments, modelCalls, events,
                 thrown, turnStart, got>>
  /\ UNCHANGED otherThanAgent

\* the loop test without the iteration budget: `while (!this.shouldStop)`
LoopTestNoBudget ==
  /\ pc = "top"
  /\ IF ~shouldStop["A1"]
     THEN /\ iterations' = iterations + 1
          /\ modelCalls' = modelCalls + 1
          /\ \E text \in (IF VariedTurn(iterations + 1) THEN TurnTexts
                          ELSE {PlainText}) :
               stream' = text
          /\ fullContent' = <<>>
          /\ toolCall' = NoToolCall
          /\ tool' = NoTool
          /\ events' = <<>>
          /\ turnStart' = [messages |-> Len(messages),
                           fragments |-> Len(fragments)]
          /\ pc' = "stream"
     ELSE /\ pc' = "exit"
          /\ UNCHANGED <<iterations, modelCalls, stream, fullContent,
                         toolCall, tool, events, turnStart>>
  /\ UNCHANGED <<configured, maxIterations, registry, shouldStop, messages,
                 pending, fragments, stopAt, thrown, runs, got>>
  /\ UNCHANGED otherThanAgent

\* the while condition of line 742, then lines 743-758
LoopTest ==
  /\ pc = "top"
  /\ IF ~shouldStop["A1"] /\ iterations < maxIterations
     THEN /\ iterations' = iterations + 1
          /\ modelCalls' = modelCalls + 1
          /\ \E text \in (IF VariedTurn(iterations + 1) THEN TurnTexts
                          ELSE {PlainText}) :
               stream' = text
          /\ fullContent' = <<>>
          /\ toolCall' = NoToolCall
          /\ tool' = NoTool
          /\ events' = <<>>
          /\ turnStart' = [messages |-> Len(messages),
                           fragments |-> Len(fragments)]
          /\ pc' = "stream"
     ELSE /\ pc' = "exit"
          /\ UNCHANGED <<iterations, modelCalls, stream, fullContent,
                         toolCall, tool, events, turnStart>>
  /\ UNCHANGED <<configured, maxIterations, registry, shouldStop, messages,
                 pending, fragments, stopAt, thrown, runs, got>>
  /\ UNCHANGED otherThanAgent

\* one pass of `for await (const chunk of result.textStream)`
StreamChunk ==
  /\ pc = "stream"
  /\ stream # <<>>
  /\ fullContent' = Append(fullContent, Head(stream))
  /\ stream' = Tail(stream)
  /\ fragments' = Append(fragments, "chunk")
  /\ UNCHANGED <<configured, maxIterations, registry, shouldStop, messages,
                 pc, iterations, toolCall, tool, pending, modelCalls, events,
                 stopAt, thrown, turnStart, runs, got>>
  /\ UNCHANGED otherThanAgent

\* streamText or the text stream raises: nothing in run catches it
StreamRaise ==
  /\ pc = "stream"
  /\ pc' = "raised"
  /\ thrown' = "ModelError"
  /\ UNCHANGED <<configured, maxIterations, registry, shouldStop, messages,
                 iterations, stream, fullContent, toolCall, tool, pending,
                 fragments, modelCalls, events, stopAt, turnStart, runs,
                 got>>
  /\ UNCHANGED otherThanAgent

\* the outcomes of tool.execute: it returns a value, returns null or
\* undefined, or raises (for a built-in finish: its onFinish observer raises)
ToolOutcomes(t, turn) ==
  IF ~VariedTurn(turn) THEN {"ok"}
  ELSE IF t.name = "Other" THEN {"ok", "nullish", "raise"}
  ELSE {"ok", "raise"}

\* may an observer callback raise in this turn
ObserverRaises(turn) == IF VariedTurn(turn) THEN BOOLEAN ELSE {FALSE}

\* the stream is exhausted: lines 769-802, up to the first yield or await
StreamEnd ==
  /\ pc = "stream"
  /\ stream = <<>>
  /\ messages' = Append(messages, AssistantMsg(fullContent))
  /\ LET tc == parseToolCall(fullContent) IN
     /\ toolCall' = tc
     /\ IF ~tc.found
        THEN \* line 774: natural end
             /\ pc' = "exit"
             /\ UNCHANGED <<tool, events, fragments, pending, shouldStop,
                            thrown>>
        ELSE IF ~RegistryHas(registry, tc.tool)
        THEN \* line 782: unknown tool
             /\ Yield("unknown", {})
             /\ UNCHANGED <<tool, events, shouldStop>>
        ELSE LET t == RegistryGet(registry, tc.tool)
                 v == ZodParse(t.schema, tc.parameters)
             IN  /\ tool' = t
                 /\ IF ~v.ok
                    THEN /\ Throw("ZodError", v.issues)
                         /\ UNCHANGED <<events, shouldStop>>
                    ELSE \E raises \in ObserverRaises(iterations) :
                           IF raises
                           THEN /\ events' = <<"onToolCall!">>
                                /\ Throw("Error", {})
                                /\ UNCHANGED shouldStop
                           ELSE /\ events' = <<"onToolCall", "execute">>
                                /\ shouldStop' =
                                     IF t.stops \in Agents
                                     THEN [shouldStop EXCEPT ![t.stops] = TRUE]
                                     ELSE shouldStop
                                /\ pc' = "exec"
                                /\ UNCHANGED <<fragments, pending, thrown>>
  /\ UNCHANGED <<configured, maxIterations, registry, iterations, stream,
                 fullContent, modelCalls, stopAt, turnStart, runs, got>>
  /\ UNCHANGED otherThanAgent

\* a run that tells the tool-result observer of a failed execution too
ToolReturnsObservingFailure ==
  /\ pc = "exec"
  /\ \E outcome \in ToolOutcomes(tool, iterations),
        raises \in ObserverRaises(iterations) :
       IF outcome = "raise"
       THEN /\ events' = events \o <<"execute!", "onToolResult">>
            /\ Throw("Error", {})
       ELSE IF raises
       THEN /\ events' = events \o <<"returned", "onToolResult!">>
            /\ Throw("Error", {})
       ELSE /\ events' = events \o <<"returned", "onToolResult">>
            /\ IF shouldStop["A1"]
               THEN IF outcome = "nullish"
                    THEN Throw("TypeError", {})  \* toolResult.reason
                    ELSE Yield("finished", {})
               ELSE Yield("result", {})
  /\ UNCHANGED <<configured, maxIterations, registry, shouldStop, messages,
                 iterations, stream, fullContent, toolCall, tool, modelCalls,
                 stopAt, turnStart, runs, got>>
  /\ UNCHANGED otherThanAgent

\* `await tool.execute(...)` settles: lines 802-824
ToolReturns ==
  /\ pc = "exec"
  /\ \E outcome \in ToolOutcomes(tool, iterations),
        raises \in ObserverRaises(iterations) :
       IF outcome = "raise"
       THEN /\ events' = Append(events, "execute!")
            /\ Throw("Error", {})
       ELSE IF raises
       THEN /\ events' = events \o <<"returned", "onToolResult!">>
            /\ Throw("Error", {})
       ELSE /\ events' = events \o <<"returned", "onToolResult">>
            /\ IF shouldStop["A1"]
               THEN IF outcome = "nullish"
                    THEN Throw("TypeError", {})  \* toolResult.reason
                    ELSE Yield("finished", {})
               ELSE Yield("result", {})
  /\ UNCHANGED <<configured, maxIterations, registry, shouldStop, messages,
                 iterations, stream, fullContent, toolCall, tool, modelCalls,
                 stopAt, turnStart, runs, got>>
  /\ UNCHANGED otherThanAgent

\* the caller asks for the next fragment: the code after the yield
Resume ==
  /\ pc = "yield"
  /\ messages' =
       CASE pending.kind = "unknown" ->
              Append(messages, UnknownToolMsg(toolCall.tool, registry))
         [] pending.kind = "validation" ->
              Append(messages, ValidationMsg(tool.id, pending.issues))
         [] pending.kind = "execError" ->
              Append(messages, ExecErrorMsg(tool.id))
         [] pending.kind = "result" ->
              Append(messages, ToolResultMsg(tool.id))
         [] OTHER -> messages
  /\ pc' = CASE pending.kind = "finished" -> "exit"
             [] pending.kind = "max" -> "done"
             [] OTHER -> "top"
  /\ pending' = NoPending
  /\ UNCHANGED <<configured, maxIterations, registry, shouldStop, iterations,
                 stream, fullContent, toolCall, tool, fragments, modelCalls,
                 events, stopAt, thrown, turnStart, runs, got>>
  /\ UNCHANGED otherThanAgent

\* the code after the loop with a test of the budget alone
LoopExitIgnoringStop ==
  /\ pc = "exit"
  /\ IF iterations >= maxIterations
     THEN Yield("max", {})
     ELSE /\ pc' = "done"
          /\ UNCHANGED <<fragments, pending, thrown>>
  /\ UNCHANGED <<configured, maxIterations, registry, shouldStop, messages,
                 iterations, stream, fullContent, toolCall, tool, modelCalls,
                 events, stopAt, turnStart, runs, got>>
  /\ UNCHANGED otherThanAgent

\* after the loop: lines 846-848
LoopExit ==
  /\ pc = "exit"
  /\ IF iterations >= maxIterations /\ ~shouldStop["A1"]
     THEN Yield("max", {})
     ELSE /\ pc' = "done"
          /\ UNCHANGED <<fragments, pending, thrown>>
  /\ UNCHANGED <<configured, maxIterations, registry, shouldStop, messages,
                 iterations, stream, fullContent, toolCall, tool, modelCalls,
                 events, stopAt, turnStart, runs, got>>
  /\ UNCHANGED otherThanAgent

Next ==
  \/ ConstructAgent2
  \/ Register(otherFinishTool)
  \/ Stop
  \/ Run
  \/ LoopTest
  \/ StreamChunk
  \/ StreamRaise
  \/ StreamEnd
  \/ ToolReturns
  \/ Resume
  \/ LoopExit

Spec == Init /\ [][Next]_vars

\* a step of the run itself: the loop test, the delivery of a chunk or the
\* end or failure of the stream, the settling of tool.execute, the caller
\* asking for the next fragment, the code after the loop
RunStep ==
  \/ LoopTest
  \/ StreamChunk
  \/ StreamRaise
  \/ StreamEnd
  \/ ToolReturns
  \/ Resume
  \/ LoopExit

\* every model stream is finite, every tool execution settles and the
\* caller keeps consuming the fragments: a started run is not left waiting
\* forever
FairSpec == Init /\ [][Next]_vars /\ WF_vars(RunStep)

(***************************************************************************)
(* An Agent instance used for several runs                                 *)
(***************************************************************************)
\* the number of times run is started on the instance
MaxRuns == 2

\* no run of A1 is under way: none was started, or the last one has ended
Quiescent == {"idle", "done", "raised"}

\* a run that starts from an empty history
RunAgainFreshHistory ==
  /\ pc \in {"done", "raised"}
  /\ runs < MaxRuns
  /\ shouldStop' = [shouldStop EXCEPT !["A1"] = FALSE]
  /\ messages' = <<UserInputMsg>>
  /\ iterations' = 0
  /\ pc' = "top"
  /\ stopAt' = NoStop
  /\ runs' = runs + 1
  /\ stream' = <<>>
  /\ fullContent' = <<>>
  /\ toolCall' = NoToolCall
  /\ tool' = NoTool
  /\ pending' = NoPending
  /\ fragments' = <<>>
  /\ modelCalls' = 0
  /\ events' = <<>>
  /\ thrown' = "none"
  /\ turnStart' = [messages |-> 1, fragments |-> 0]
  /\ UNCHANGED <<configured, maxIterations, registry, got>>
  /\ UNCHANGED otherThanAgent

\* run is called again and its generator is started: lines 734-740, on
\* fresh locals
RunAgain ==
  /\ pc \in {"done", "raised"}
  /\ runs < MaxRuns
  /\ shouldStop' = [shouldStop EXCEPT !["A1"] = FALSE]
  /\ messages' = Append(messages, UserInputMsg)
  /\ iterations' = 0
  /\ pc' = "top"
  /\ stopAt' = NoStop
  /\ runs' = runs + 1
  /\ stream' = <<>>
  /\ fullContent' = <<>>
  /\ toolCall' = NoToolCall
  /\ tool' = NoTool
  /\ pending' = NoPending
  /\ fragments' = <<>>
  /\ modelCalls' = 0
  /\ events' = <<>>
  /\ thrown' = "none"
  /\ turnStart' = [messages |-> Len(messages) + 1, fragments |-> 0]
  /\ UNCHANGED <<configured, maxIterations, registry, got>>
  /\ UNCHANGED otherThanAgent

\* Agent.stop of A1 while no run is under way
StopQuiescent ==
  /\ pc \in {"done", "raised"}
  /\ shouldStop' = [shouldStop EXCEPT !["A1"] = TRUE]
  /\ UNCHANGED <<configured, maxIterations, registry, messages, pc,
                 iterations, stream, fullContent, toolCall, tool, pending,
                 fragments, modelCalls, events, stopAt, thrown, turnStart,
                 runs, got>>
  /\ UNCHANGED otherThanAgent

\* Agent.getMessages of A1, called between two runs: a copy of the history
GetMessages ==
  /\ pc \in Quiescent
  /\ got' = messages
  /\ UNCHANGED <<configured, maxIterations, registry, shouldStop, messages,
                 pc, iterations, stream, fullContent, toolCall, tool, pending,
                 fragments, modelCalls, events, stopAt, thrown, turnStart,
                 runs>>
  /\ UNCHANGED otherThanAgent

\* Agent.clearHistory of A1, called between two runs
ClearHistory ==
  /\ pc \in Quiescent
  /\ messages' = <<>>
  /\ shouldStop' = [shouldStop EXCEPT !["A1"] = FALSE]
  /\ UNCHANGED <<configured, maxIterations, registry, pc, iterations, stream,
                 fullContent, toolCall, tool, pending, fragments, modelCalls,
                 events, stopAt, thrown, turnStart, runs, got>>
  /\ UNCHANGED otherThanAgent

HistoryNext ==
  \/ Stop
  \/ StopQuiescent
  \/ GetMessages
  \/ ClearHistory
  \/ Run
  \/ RunAgain
  \/ LoopTest
  \/ StreamChunk
  \/ StreamRaise
  \/ StreamEnd
  \/ ToolReturns
  \/ Resume
  \/ LoopExit

\* an agent constructed with the largest configured budget
HistoryInit == Init /\ configured = MaxConfigured

HistorySpec == HistoryInit /\ [][HistoryNext]_vars

(***************************************************************************)
(* A ToolRegistry on its own                                               *)
(***************************************************************************)
\* the number of register calls a registry is followed for
MaxRegisterCalls == 4

\* the tools handed to register: two ids, three different tools under
\* the id `finish`
RegisteredTools ==
  {calculatorTool, FinishTool("A1"), FinishTool("A2"), otherFinishTool}

\* the ids get is asked for; `lookup` is never registered
ToolIds == {"calculator", "finish", "lookup"}

\* registry.register(t)
RegisterCall(t) ==
  /\ Len(registerCalls) < MaxRegisterCalls
  /\ tools' = RegistryRegister(tools, t)
  /\ registerCalls' = Append(registerCalls, t)
  /\ UNCHANGED otherThanRegistry

RegistryNext == \E t \in RegisteredTools : RegisterCall(t)

\* new ToolRegistry(): an empty Map, beside an agent that is not run
RegistryInit == Init /\ configured = Absent

RegistrySpec == RegistryInit /\ [][RegistryNext]_vars

(***************************************************************************)
(* CouncilSession: one durable object, its requests handled one at a time  *)
(***************************************************************************)
\* lines 38-40 of fetch: the state in memory, read from storage when the
\* object holds none
Loaded == IF sessionState.exists THEN sessionState ELSE storage

\* an initialize that keeps the deliberations already recorded
InitializeKeepingDeliberations(data) ==
  LET new == [exists |-> TRUE,
              question |-> data.question,
              stage |-> "initializing",
              maxRounds |-> IF Truthy(data.maxRounds) THEN data.maxRounds
                            ELSE DefaultMaxRounds,
              currentRound |-> 0,
              agentIds |-> data.agentIds,
              decision |-> Undefined,
              consensusScore |-> Absent,
              confidenceLevel |-> Absent,
              deliberations |-> Loaded.deliberations]
  IN  /\ sessionState' = new
      /\ storage' = new
      /\ sessionResponse' = SessionResponse("state", 200)
      /\ UNCHANGED otherThanCouncil

\* POST /initialize
Initialize(data) ==
  LET new == [exists |-> TRUE,
              question |-> data.question,
              stage |-> "initializing",
              maxRounds |-> IF Truthy(data.maxRounds) THEN data.maxRounds
                            ELSE DefaultMaxRounds,
              currentRound |-> 0,
              agentIds |-> data.agentIds,
              decision |-> Undefined,
              consensusScore |-> Absent,
              confidenceLevel |-> Absent,
              deliberations |-> <<>>]
  IN  /\ sessionState' = new
      /\ storage' = new
      /\ sessionResponse' = SessionResponse("state", 200)
      /\ UNCHANGED otherThanCouncil

\* an addDeliberation that stamps the round to come
AddDeliberationNextRound(agentId, content) ==
  LET cur == Loaded IN
  /\ Len(cur.deliberations) < MaxDeliberations
  /\ IF ~cur.exists
     THEN /\ sessionState' = cur
          /\ UNCHANGED storage
          /\ sessionResponse' = SessionResponse("text", 400)
     ELSE LET new == [cur EXCEPT
                        !.deliberations =
                           Append(@, [round |-> cur.currentRound + 1,
                                      agentId |-> agentId,
                                      content |-> content]),
                        !.stage = "deliberating"]
          IN  /\ sessionState' = new
              /\ storage' = new
              /\ sessionResponse' = SessionResponse("state", 200)
  /\ UNCHANGED otherThanCouncil

\* POST /deliberate
AddDeliberation(agentId, content) ==
  LET cur == Loaded IN
  /\ Len(cur.deliberations) < MaxDeliberations
  /\ IF ~cur.exists
     THEN /\ sessionState' = cur
          /\ UNCHANGED storage
          /\ sessionResponse' = SessionResponse("text", 400)
     ELSE LET new == [cur EXCEPT
                        !.deliberations =
                           Append(@, [round |-> cur.currentRound,
                                      agentId |-> agentId,
                                      content |-> content]),
                        !.stage = "deliberating"]
          IN  /\ sessionState' = new
              /\ storage' = new
              /\ sessionResponse' = SessionResponse("state", 200)
  /\ UNCHANGED otherThanCouncil

\* a synthesize that takes the final stage only past maxRounds
SynthesizeFinalPastMax(round) ==
  LET cur == Loaded IN
  /\ IF ~cur.exists
     THEN /\ sessionState' = cur
          /\ UNCHANGED storage
          /\ sessionResponse' = SessionResponse("text", 400)
     ELSE LET new == [cur EXCEPT
                        !.currentRound = round,
                        !.stage = IF round > cur.maxRounds
                                  THEN "synthesizing_final"
                                  ELSE "synthesizing_round"]
          IN  /\ sessionState' = new
              /\ storage' = new
              /\ sessionResponse' = SessionResponse("state", 200)
  /\ UNCHANGED otherThanCouncil

\* POST /synthesize
Synthesize(round) ==
  LET cur == Loaded IN
  /\ IF ~cur.exists
     THEN /\ sessionState' = cur
          /\ UNCHANGED storage
          /\ sessionResponse' = SessionResponse("text", 400)
     ELSE LET new == [cur EXCEPT
                        !.currentRound = round,
                        !.stage = IF round >= cur.maxRounds
                                  THEN "synthesizing_final"
                                  ELSE "synthesizing_round"]
          IN  /\ sessionState' = new
              /\ storage' = new
              /\ sessionResponse' = SessionResponse("state", 200)
  /\ UNCHANGED otherThanCouncil

\* a complete that marks a session without a single deliberation as failed
CompleteOrFail(decision, consensusScore, confidenceLevel) ==
  LET cur == Loaded IN
  /\ IF ~cur.exists
     THEN /\ sessionState' = cur
          /\ UNCHANGED storage
          /\ sessionResponse' = SessionResponse("text", 400)
     ELSE LET new == [cur EXCEPT
                        !.decision = decision,
                        !.consensusScore = consensusScore,
                        !.confidenceLevel = confidenceLevel,
                        !.stage = IF cur.deliberations = <<>>
                                  THEN "failed" ELSE "completed"]
          IN  /\ sessionState' = new
              /\ storage' = new
              /\ sessionResponse' = SessionResponse("state", 200)
  /\ UNCHANGED otherThanCouncil

\* POST /complete
Complete(decision, consensusScore, confidenceLevel) ==
  LET cur == Loaded IN
  /\ IF ~cur.exists
     THEN /\ sessionState' = cur
          /\ UNCHANGED storage
          /\ sessionResponse' = SessionResponse("text", 400)
     ELSE LET new == [cur EXCEPT
                        !.decision = decision,
                        !.consensusScore = consensusScore,
                        !.confidenceLevel = confidenceLevel,
                        !.stage = "completed"]
          IN  /\ sessionState' = new
              /\ storage' = new
              /\ sessionResponse' = SessionResponse("state", 200)
  /\ UNCHANGED otherThanCouncil

\* GET /get
GetSession ==
  /\ sessionState' = Loaded
  /\ sessionResponse' = IF Loaded.exists THEN SessionResponse("state", 200)
                        ELSE SessionResponse("text", 404)
  /\ UNCHANGED storage
  /\ UNCHANGED otherThanCouncil

\* the runtime drops the object from memory; the next request constructs it
\* anew, with sessionState = null
Evict ==
  /\ sessionState.exists
  /\ sessionState' = NoSession
  /\ UNCHANGED <<storage, sessionResponse>>
  /\ UNCHANGED otherThanCouncil

CouncilNext ==
  \/ \E data \in InitializeData : Initialize(data)
  \/ \E agentId \in CouncilAgentIds : AddDeliberation(agentId, "c1")
  \/ \E round \in RoundArgs : Synthesize(round)
  \/ \E decision \in Decisions, consensusScore \in Scores,
        confidenceLevel \in Scores :
       Complete(decision, consensusScore, confidenceLevel)
  \/ GetSession
  \/ Evict

\* the object as constructed, line 27, with nothing stored, beside an agent
\* that is not run
CouncilInit == Init /\ configured = Absent

CouncilSpec == CouncilInit /\ [][CouncilNext]_vars

(***************************************************************************)
(* KnowledgePack (KnowledgePack.ts): one object and its durable storage.   *)
(* fetch routes /create, /add-entry, /finalize, /get and /update, and      *)
(* loads this.packState from the storage first when it is null; the other  *)
(* methods are called on the object and use this.packState as it is.       *)
(***************************************************************************)
\* this.packState after the first lines of fetch
PackLoaded == IF packState.exists THEN packState ELSE packStorage

\* the readings `new Date()` can give: none earlier than the latest stamp
\* of the state
Stamps(cur) == (IF cur.exists THEN cur.updatedAt ELSE 0) .. MaxNow

\* { ...state, ...updates }
Merge(state, updates) ==
  [k \in DOMAIN state |->
     IF k \in DOMAIN updates THEN updates[k] ELSE state[k]]

\* the 400 of a method that finds this.packState null
NotInitialized == PackResponse("text", 400)

\* a handler changed the state, stored it and answered with JSON
Stored(new, response) ==
  /\ packState' = new
  /\ packStorage' = new
  /\ packResponse' = response

\* POST /create
Create(data) ==
  /\ \E t1 \in Stamps(PackLoaded) : \E t2 \in t1 .. MaxNow :
       Stored([exists |-> TRUE,
               title |-> data.title,
               content |-> "",
               consensusScore |-> 0,
               embeddingId |-> Undefined,
               entries |-> <<>>,
               tags |-> data.tags,
               sourceFiles |-> data.sourceFiles,
               sourceArtifacts |-> data.sourceArtifacts,
               createdAt |-> t1,
               updatedAt |-> t2],
              PackResponse("state", 200))
  /\ UNCHANGED otherThanPack

\* an add-entry that puts the new entry first
AddEntryInFront(entry) ==
  LET cur == PackLoaded IN
  /\ Len(cur.entries) < MaxEntries
  /\ IF ~cur.exists
     THEN /\ packState' = cur
          /\ packResponse' = NotInitialized
          /\ UNCHANGED packStorage
     ELSE \E t1 \in Stamps(cur) : \E t2 \in t1 .. MaxNow :
            Stored([cur EXCEPT
                      !.entries = <<[content |-> entry.content,
                                     agentId |-> entry.agentId,
                                     score |-> entry.score,
                                     sources |-> entry.sources,
                                     timestamp |-> t1]>> \o @,
                      !.updatedAt = t2],
                   PackResponse("state", 200))
  /\ UNCHANGED otherThanPack

\* POST /add-entry
AddEntry(entry) ==
  LET cur == PackLoaded IN
  /\ Len(cur.entries) < MaxEntries
  /\ IF ~cur.exists
     THEN /\ packState' = cur
          /\ packResponse' = NotInitialized
          /\ UNCHANGED packStorage
     ELSE \E t1 \in Stamps(cur) : \E t2 \in t1 .. MaxNow :
            Stored([cur EXCEPT
                      !.entries = Append(@, [content |-> entry.content,
                                             agentId |-> entry.agentId,
                                             score |-> entry.score,
                                             sources |-> entry.sources,
                                             timestamp |-> t1]),
                      !.updatedAt = t2],
                   PackResponse("state", 200))
  /\ UNCHANGED otherThanPack

\* POST /finalize
Finalize(data) ==
  LET cur == PackLoaded IN
  /\ IF ~cur.exists
     THEN /\ packState' = cur
          /\ packResponse' = NotInitialized
          /\ UNCHANGED packStorage
     ELSE \E t \in Stamps(cur) :
            Stored([cur EXCEPT !.content = data.content,
                               !.consensusScore = data.consensusScore,
                               !.embeddingId = data.embeddingId,
                               !.updatedAt = t],
                   PackResponse("state", 200))
  /\ UNCHANGED otherThanPack

\* an update that answers with the fields it was given
UpdateAnsweringUpdates(updates) ==
  LET cur == PackLoaded IN
  /\ IF ~cur.exists
     THEN /\ packState' = cur
          /\ packResponse' = NotInitialized
          /\ UNCHANGED packStorage
     ELSE \E t \in Stamps(cur) :
            Stored([Merge(cur, updates) EXCEPT !.updatedAt = t],
                   PackResponse("part", 200))
  /\ UNCHANGED otherThanPack

\* POST /update
Update(updates) ==
  LET cur == PackLoaded IN
  /\ IF ~cur.exists
     THEN /\ packState' = cur
          /\ packResponse' = NotInitialized
          /\ UNCHANGED packStorage
     ELSE \E t \in Stamps(cur) :
            Stored([Merge(cur, updates) EXCEPT !.updatedAt = t],
                   PackResponse("state", 200))
  /\ UNCHANGED otherThanPack

\* GET /get
GetPack ==
  LET cur == PackLoaded IN
  /\ packState' = cur
  /\ packResponse' = IF cur.exists THEN PackResponse("state", 200)
                     ELSE PackResponse("text", 404)
  /\ UNCHANGED packStorage
  /\ UNCHANGED otherThanPack

\* does an entry match a lower-cased query
Matches(entry, queryLower) ==
  \/ Includes(ToLowerCase(entry.content), queryLower)
  \/ Includes(ToLowerCase(entry.agentId), queryLower)
  \/ \E i \in DOMAIN entry.sources :
       Includes(ToLowerCase(entry.sources[i]), queryLower)

\* entries.filter(...)
RECURSIVE Filter(_, _)
Filter(entries, queryLower) ==
  IF entries = <<>> THEN <<>>
  ELSE LET rest == Filter(Tail(entries), queryLower)
       IN  IF Matches(Head(entries), queryLower)
           THEN <<Head(entries)>> \o rest ELSE rest

\* searchEntries(query)
SearchEntries(query) ==
  /\ packResponse' =
       [PackResponse("array", 0) EXCEPT
          !.found = IF ~packState.exists THEN <<>>
                    ELSE Filter(packState.entries, ToLowerCase(query))]
  /\ UNCHANGED <<packState, packStorage>>
  /\ UNCHANGED otherThanPack

\* a method found this.packState null, or an index out of range
Refused(response) ==
  /\ packResponse' = response
  /\ UNCHANGED <<packState, packStorage>>

\* a range test that lets the index one past the last entry through
InvalidIndexPastEnd(entryIndex) ==
  entryIndex < 0 \/ entryIndex > Len(packState.entries)

\* is entryIndex outside entries
InvalidIndex(entryIndex) ==
  entryIndex < 0 \/ entryIndex >= Len(packState.entries)

\* updateEntry(entryIndex, updates); entries[i] of the code is
\* entries[i + 1] here
UpdateEntry(entryIndex, updates) ==
  /\ IF ~packState.exists THEN Refused(NotInitialized)
     ELSE IF InvalidIndex(entryIndex)
     THEN Refused(PackResponse("text", 400))
     ELSE \E t1 \in Stamps(packState) : \E t2 \in t1 .. MaxNow :
            Stored([packState EXCEPT
                      !.entries[entryIndex + 1] =
                         [Merge(@, updates) EXCEPT !.timestamp = t1],
                      !.updatedAt = t2],
                   PackResponse("part", 200))
  /\ UNCHANGED otherThanPack

\* entries.splice(entryIndex, 1)
Splice(entries, entryIndex) ==
  SubSeq(entries, 1, entryIndex) \o
  SubSeq(entries, entryIndex + 2, Len(entries))

\* removeEntry(entryIndex)
RemoveEntry(entryIndex) ==
  /\ IF ~packState.exists THEN Refused(NotInitialized)
     ELSE IF InvalidIndex(entryIndex)
     THEN Refused(PackResponse("text", 400))
     ELSE \E t \in Stamps(packState) :
            Stored([packState EXCEPT
                      !.entries = Splice(@, entryIndex),
                      !.updatedAt = t],
                   PackResponse("part", 200))
  /\ UNCHANGED otherThanPack

\* addTags(tags)
AddTags(tags) ==
  /\ IF ~packState.exists THEN Refused(NotInitialized)
     ELSE \E t \in Stamps(packState) :
            Stored([packState EXCEPT
                      !.tags = List(Dedup(OrEmpty(@) \o tags)),
                      !.updatedAt = t],
                   PackResponse("part", 200))
  /\ UNCHANGED otherThanPack

\* removeTags(tags)
RemoveTags(tags) ==
  /\ IF ~packState.exists THEN Refused(NotInitialized)
     ELSE IF ~packState.tags.present
     THEN Refused(PackResponse("part", 200))
     ELSE \E t \in Stamps(packState) :
            Stored([packState EXCEPT
                      !.tags = List(Without(@.items, Elements(tags))),
                      !.updatedAt = t],
                   PackResponse("part", 200))
  /\ UNCHANGED otherThanPack

\* addSources({files, artifacts})
AddSources(sources) ==
  /\ IF ~packState.exists THEN Refused(NotInitialized)
     ELSE \E t \in Stamps(packState) :
            Stored([packState EXCEPT
                      !.sourceFiles =
                         IF Len(sources.files) > 0
                         THEN List(Dedup(OrEmpty(@) \o sources.files))
                         ELSE @,
                      !.sourceArtifacts =
                         IF Len(sources.artifacts) > 0
                         THEN List(Dedup(OrEmpty(@) \o sources.artifacts))
                         ELSE @,
                      !.updatedAt = t],
                   PackResponse("part", 200))
  /\ UNCHANGED otherThanPack

\* updateConsensusScore(score)
UpdateConsensusScore(score) ==
  /\ IF ~packState.exists THEN Refused(NotInitialized)
     ELSE \E t \in Stamps(packState) :
            Stored([packState EXCEPT !.consensusScore = score,
                                     !.updatedAt = t],
                   PackResponse("part", 200))
  /\ UNCHANGED otherThanPack

\* entries.reduce((sum, entry) => sum + entry.score, 0)
RECURSIVE SumScores(_)
SumScores(entries) ==
  IF entries = <<>> THEN 0
  ELSE SumScores(SubSeq(entries, 1, Len(entries) - 1))
       + entries[Len(entries)].score

\* a divisor without the `|| 1`
OrOneMissing(n) == n

\* `n || 1`
OrOne(n) == IF n = 0 THEN 1 ELSE n

\* `list?.length || 0`
LengthOrZero(list) == IF list.present THEN Len(list.items) ELSE 0

\* the statistics getStats computes; averageScore is the quotient sum / by
Stats(state) ==
  [entryCount |-> Len(state.entries),
   averageScore |-> [sum |-> SumScores(state.entries),
                     by |-> OrOne(Len(state.entries))],
   sourceFileCount |-> LengthOrZero(state.sourceFiles),
   sourceArtifactCount |-> LengthOrZero(state.sourceArtifacts),
   tagCount |-> LengthOrZero(state.tags)]

\* getStats()
GetStats ==
  /\ packResponse' =
       IF ~packState.exists THEN NotInitialized
       ELSE [PackResponse("stats", 200) EXCEPT !.stats = Stats(packState)]
  /\ UNCHANGED <<packState, packStorage>>
  /\ UNCHANGED otherThanPack

\* the runtime drops the object from memory; the next request constructs it
\* anew, with packState = null
EvictPack ==
  /\ packState.exists
  /\ packState' = NoPack
  /\ UNCHANGED <<packStorage, packResponse>>
  /\ UNCHANGED otherThanPack

PackNext ==
  \/ \E data \in CreatePayloads : Create(data)
  \/ \E entry \in EntryInputs : AddEntry(entry)
  \/ \E data \in FinalizeInputs : Finalize(data)
  \/ \E updates \in UpdatePayloads : Update(updates)
  \/ GetPack
  \/ \E query \in Queries : SearchEntries(query)
  \/ \E entryIndex \in EntryIndexes, updates \in EntryUpdates :
       UpdateEntry(entryIndex, updates)
  \/ \E entryIndex \in EntryIndexes : RemoveEntry(entryIndex)
  \/ \E tags \in TagArgs : AddTags(tags)
  \/ \E tags \in TagArgs : RemoveTags(tags)
  \/ \E sources \in SourceArgs : AddSources(sources)
  \/ \E score \in ConsensusScoreArgs : UpdateConsensusScore(score)
  \/ GetStats
  \/ EvictPack

\* the object as constructed, line 28, with nothing stored, beside an agent
\* that is not run
PackInit == Init /\ configured = Absent

PackSpec == PackInit /\ [][PackNext]_vars

(***************************************************************************)
(* The operations of one CouncilSession or of one KnowledgePack, one       *)
(* after another, with what each of them returns.  The two objects share   *)
(* nothing: a behaviour follows the object that is called first.           *)
(***************************************************************************)
\* no call has reached the CouncilSession
SessionUntouched ==
  /\ ~sessionState.exists
  /\ ~storage.exists
  /\ sessionResponse = NoSessionResponse

\* no call has reached the KnowledgePack
PackUntouched ==
  /\ ~packState.exists
  /\ ~packStorage.exists
  /\ packResponse = NoResponse

\* an operation of the CouncilSession that changes its state
SessionMutation ==
  /\ PackUntouched
  /\ \/ \E data \in InitializeData :
          data.question = "q1" /\ data.agentIds = <<>> /\ Initialize(data)
     \/ AddDeliberation("a1", "c1")
     \/ \E round \in {1, 3} : Synthesize(round)
     \/ Complete("approve", 1, 0)

SessionRead == PackUntouched /\ GetSession

SessionEvicted == PackUntouched /\ Evict

\* an operation of the KnowledgePack that fetch routes and that changes
\* its state
PackRouted ==
  /\ SessionUntouched
  /\ \/ \E data \in CreatePayloads : Create(data)
     \/ \E entry \in EntryInputs : entry.agentId = "a1" /\ AddEntry(entry)
     \/ \E data \in FinalizeInputs :
          data.embeddingId = Undefined /\ Finalize(data)
     \/ \E updates \in UpdatePayloads : Update(updates)

\* a method of the KnowledgePack that changes its state
PackMethod ==
  /\ SessionUntouched
  /\ \/ \E entryIndex \in {0, 1}, updates \in EntryUpdates :
          UpdateEntry(entryIndex, updates)
     \/ \E entryIndex \in {0, 1} : RemoveEntry(entryIndex)
     \/ \E tags \in TagArgs : AddTags(tags)
     \/ \E tags \in TagArgs : RemoveTags(tags)
     \/ \E sources \in SourceArgs : AddSources(sources)
     \/ \E score \in ConsensusScoreArgs : UpdateConsensusScore(score)

PackRead == SessionUntouched /\ GetPack

PackEvicted == SessionUntouched /\ EvictPack

ActorsNext ==
  \/ SessionMutation
  \/ SessionRead
  \/ SessionEvicted
  \/ PackRouted
  \/ PackMethod
  \/ PackRead
  \/ PackEvicted

\* the two objects as constructed, with nothing stored, beside an agent
\* that is not run
ActorsInit == Init /\ configured = Absent

ActorsSpec == ActorsInit /\ [][ActorsNext]_vars

(***************************************************************************)
(* addDeliberation and addEntry from their changes in memory to their      *)
(* `await this.storage.put(...)`, and what the put may do: take effect,    *)
(* be rejected by the store while the object lives on (the handler         *)
(* raises), or not take place because the object is restarted.             *)
(***************************************************************************)
\* no handler is between its changes in memory and its put
NoCallUnderWay == call.at # "put"

\* the bodies of the /add-entry requests that are followed
FollowedEntries == {entry \in EntryInputs : entry.agentId = "a1"}

\* a handler of the object begins
Begun(object, at) ==
  [object |-> object, at |-> at, puts |-> 0, made |-> call.made + 1]

\* the operations that are not followed statement by statement, each from
\* its first statement to its answer, between two calls that are
SessionMutationBetween == NoCallUnderWay /\ SessionMutation

PackRoutedBetween == NoCallUnderWay /\ PackRouted

PackMethodBetween == NoCallUnderWay /\ PackMethod

\* an addDeliberation that stores the state once the entry is pushed and
\* again at its end
DeliberateMutatesStoringEarly(agentId, content) ==
  LET cur == Loaded IN
  /\ PackUntouched
  /\ NoCallUnderWay
  /\ call.made < MaxCalls
  /\ Len(cur.deliberations) < MaxDeliberations
  /\ IF ~cur.exists
     THEN /\ sessionState' = cur
          /\ sessionResponse' = SessionResponse("text", 400)
          /\ call' = Begun("session", "refused")
          /\ UNCHANGED storage
     ELSE LET pushed == [cur EXCEPT
                           !.deliberations =
                              Append(@, [round |-> cur.currentRound,
                                         agentId |-> agentId,
                                         content |-> content])]
          IN  /\ storage' = pushed
              /\ sessionState' = [pushed EXCEPT !.stage = "deliberating"]
              /\ call' = [Begun("session", "put") EXCEPT !.puts = 1]
              /\ UNCHANGED sessionResponse
  /\ UNCHANGED <<agentVars, registryVars, packVars, counterVars, requests>>

\* POST /deliberate, lines 82-98: the state is loaded, the entry pushed
\* and the stage set, in memory
DeliberateMutates(agentId, content) ==
  LET cur == Loaded IN
  /\ PackUntouched
  /\ NoCallUnderWay
  /\ call.made < MaxCalls
  /\ Len(cur.deliberations) < MaxDeliberations
  /\ IF ~cur.exists
     THEN /\ sessionState' = cur
          /\ sessionResponse' = SessionResponse("text", 400)
          /\ call' = Begun("session", "refused")
     ELSE /\ sessionState' =
               [cur EXCEPT
                  !.deliberations =
                     Append(@, [round |-> cur.currentRound,
                                agentId |-> agentId,
                                content |-> content]),
                  !.stage = "deliberating"]
          /\ call' = Begun("session", "put")
          /\ UNCHANGED sessionResponse
  /\ UNCHANGED storage
  /\ UNCHANGED <<agentVars, registryVars, packVars, counterVars, requests>>

\* POST /add-entry, lines 85-106: the state is loaded, the entry pushed
\* and updatedAt stamped, in memory
AddEntryMutates(entry) ==
  LET cur == PackLoaded IN
  /\ SessionUntouched
  /\ NoCallUnderWay
  /\ call.made < MaxCalls
  /\ Len(cur.entries) < MaxEntries
  /\ IF ~cur.exists
     THEN /\ packState' = cur
          /\ packResponse' = NotInitialized
          /\ call' = Begun("pack", "refused")
     ELSE \E t1 \in Stamps(cur) : \E t2 \in t1 .. MaxNow :
            /\ packState' =
                 [cur EXCEPT
                    !.entries = Append(@, [content |-> entry.content,
                                           agentId |-> entry.agentId,
                                           score |-> entry.score,
                                           sources |-> entry.sources,
                                           timestamp |-> t1]),
                    !.updatedAt = t2]
            /\ call' = Begun("pack", "put")
            /\ UNCHANGED packResponse
  /\ UNCHANGED packStorage
  /\ UNCHANGED <<agentVars, registryVars, councilVars, counterVars, requests>>

\* storage.put stores the state held in memory and the handler answers
\* with it
PutTakesEffect ==
  /\ call.at = "put"
  /\ call' = [call EXCEPT !.at = "done", !.puts = @ + 1]
  /\ IF call.object = "session"
     THEN /\ storage' = sessionState
          /\ sessionResponse' = SessionResponse("state", 200)
          /\ UNCHANGED <<sessionState, packVars>>
     ELSE /\ packStorage' = packState
          /\ packResponse' = PackResponse("state", 200)
          /\ UNCHANGED <<packState, councilVars>>
  /\ UNCHANGED <<agentVars, registryVars, counterVars, requests>>

\* storage.put rejects (a value the store does not accept) and stores
\* nothing: the handler raises, its caller gets an error, and the object
\* goes on serving with the state it holds
PutRejects ==
  /\ call.at = "put"
  /\ call' = [call EXCEPT !.at = "failed"]
  /\ IF call.object = "session"
     THEN /\ sessionResponse' = SessionResponse("text", 500)
          /\ UNCHANGED <<sessionState, storage, packVars>>
     ELSE /\ packResponse' = PackResponse("text", 500)
          /\ UNCHANGED <<packState, packStorage, councilVars>>
  /\ UNCHANGED <<agentVars, registryVars, counterVars, requests>>

\* the object is restarted before the put takes place: what it held in
\* memory is gone, and no answer is given
CrashBeforePut ==
  /\ call.at = "put"
  /\ call' = [call EXCEPT !.at = "crashed"]
  /\ IF call.object = "session"
     THEN /\ sessionState' = NoSession
          /\ UNCHANGED <<storage, sessionResponse, packVars>>
     ELSE /\ packState' = NoPack
          /\ UNCHANGED <<packStorage, packResponse, councilVars>>
  /\ UNCHANGED <<agentVars, registryVars, counterVars, requests>>

\* GET /get between two calls
GetSessionBetween == NoCallUnderWay /\ PackUntouched /\ GetSession

GetPackBetween == NoCallUnderWay /\ SessionUntouched /\ GetPack

\* an object is dropped from memory only between two calls
EvictBetween == NoCallUnderWay /\ Evict

EvictPackBetween == NoCallUnderWay /\ EvictPack

WriteNext ==
  \/ SessionMutationBetween
  \/ PackRoutedBetween
  \/ PackMethodBetween
  \/ DeliberateMutates("a1", "c1")
  \/ \E entry \in FollowedEntries : AddEntryMutates(entry)
  \/ PutTakesEffect
  \/ PutRejects
  \/ CrashBeforePut
  \/ GetSessionBetween
  \/ GetPackBetween
  \/ EvictBetween
  \/ EvictPackBetween

\* the two objects as constructed, with nothing stored, beside an agent
\* that is not run
WriteInit == Init /\ configured = Absent

WriteSpec == WriteInit /\ [][WriteNext]_vars

(***************************************************************************)
(* Requests in flight against one CouncilSession, one KnowledgePack and    *)
(* one Counter (Counter.ts).  A handler runs from one await to the next    *)
(* without interruption.  While a handler of an object awaits storage.get  *)
(* no other event is delivered to that object: other requests to it are    *)
(* delivered, and bodies read, only before or after.  storage.put takes    *)
(* effect when it is called; its await ends later, and other requests may  *)
(* run meanwhile.                                                          *)
(***************************************************************************)
\* the object a route belongs to
ObjectOf(op) ==
  CASE op = "deliberate" -> "session"
    [] op = "add-entry" -> "pack"
    [] op = "increment" -> "counter"
    [] OTHER -> "none"

\* no request to the object awaits storage.get
GateOpen(object) ==
  \A q \in Slots :
    ObjectOf(requests[q].op) = object => requests[q].at # "get"

\* no request has arrived yet
NoneIssued == \A q \in Slots : requests[q].op = "none"

\* every request that arrived has been answered
AllDone == \A q \in Slots : requests[q].at \in {"none", "done"}

\* the slot of the next request to arrive
FreeSlot(r) ==
  /\ requests[r].op = "none"
  /\ \A q \in 1 .. (r - 1) : requests[q].op # "none"

Suspend(r, op, at, value) ==
  requests' = [requests EXCEPT ![r] = [op |-> op, at |-> at, value |-> value]]

Resumed(r, op, at) ==
  /\ requests[r].op = op
  /\ requests[r].at = at

\* CouncilSession.fetch is entered for POST /deliberate: it awaits
\* storage.get when it holds no state, else addDeliberation awaits the body
DeliberateDeliver(r) ==
  /\ FreeSlot(r)
  /\ GateOpen("session")
  /\ IF sessionState.exists
     THEN Suspend(r, "deliberate", "json", 0)
     ELSE Suspend(r, "deliberate", "get", storage)
  /\ UNCHANGED <<agentVars, registryVars, councilVars, packVars,
                 counterVars, call>>

\* storage.get has answered: the state is assigned, and addDeliberation
\* returns 400 or awaits the body
DeliberateLoaded(r) ==
  /\ Resumed(r, "deliberate", "get")
  /\ sessionState' = requests[r].value
  /\ Suspend(r, "deliberate",
             IF requests[r].value.exists THEN "json" ELSE "done", 0)
  /\ UNCHANGED <<agentVars, registryVars, storage, sessionResponse, packVars,
                 counterVars, call>>

\* an addDeliberation that replaces the deliberations by the new one
DeliberateParsedOverwriting(r) ==
  /\ Resumed(r, "deliberate", "json")
  /\ GateOpen("session")
  /\ LET new == [sessionState EXCEPT
                   !.deliberations =
                      <<[round |-> sessionState.currentRound,
                         agentId |-> "a1",
                         content |-> RequestContent(r)]>>,
                   !.stage = "deliberating"]
     IN  /\ sessionState' = new
         /\ storage' = new
  /\ Suspend(r, "deliberate", "put", 0)
  /\ UNCHANGED <<agentVars, registryVars, sessionResponse, packVars,
                 counterVars, call>>

\* request.json() has answered: the deliberation is pushed onto the state
\* held and storage.put is awaited
DeliberateParsed(r) ==
  /\ Resumed(r, "deliberate", "json")
  /\ GateOpen("session")
  /\ LET new == [sessionState EXCEPT
                   !.deliberations =
                      Append(@, [round |-> sessionState.currentRound,
                                 agentId |-> "a1",
                                 content |-> RequestContent(r)]),
                   !.stage = "deliberating"]
     IN  /\ sessionState' = new
         /\ storage' = new
  /\ Suspend(r, "deliberate", "put", 0)
  /\ UNCHANGED <<agentVars, registryVars, sessionResponse, packVars,
                 counterVars, call>>

\* KnowledgePack.fetch is entered for POST /add-entry
AddEntryDeliver(r) ==
  /\ FreeSlot(r)
  /\ GateOpen("pack")
  /\ IF packState.exists
     THEN Suspend(r, "add-entry", "json", 0)
     ELSE Suspend(r, "add-entry", "get", packStorage)
  /\ UNCHANGED <<agentVars, registryVars, councilVars, packVars,
                 counterVars, call>>

\* storage.get has answered: the state is assigned, and addEntry returns
\* 400 or awaits the body
AddEntryLoaded(r) ==
  /\ Resumed(r, "add-entry", "get")
  /\ packState' = requests[r].value
  /\ Suspend(r, "add-entry",
             IF requests[r].value.exists THEN "json" ELSE "done", 0)
  /\ UNCHANGED <<agentVars, registryVars, councilVars, packStorage,
                 packResponse, counterVars, call>>

\* request.json() has answered: the entry is pushed onto the state held
\* and storage.put is awaited
AddEntryParsed(r) ==
  /\ Resumed(r, "add-entry", "json")
  /\ GateOpen("pack")
  /\ \E t1 \in Stamps(packState) : \E t2 \in t1 .. MaxNow :
       LET new == [packState EXCEPT
                     !.entries = Append(@, [content |-> RequestContent(r),
                                            agentId |-> "a1",
                                            score |-> 2,
                                            sources |-> <<>>,
                                            timestamp |-> t1]),
                     !.updatedAt = t2]
       IN  /\ packState' = new
           /\ packStorage' = new
  /\ Suspend(r, "add-entry", "put", 0)
  /\ UNCHANGED <<agentVars, registryVars, councilVars, packResponse,
                 counterVars, call>>

\* Counter.fetch is entered for /increment and awaits storage.get('value')
IncrementDeliver(r) ==
  /\ FreeSlot(r)
  /\ GateOpen("counter")
  /\ Suspend(r, "increment", "get", counterValue)
  /\ UNCHANGED <<agentVars, registryVars, councilVars, packVars,
                 counterVars, call>>

\* `read || 0`
OrZero(read) == IF read.stored /\ read.value # 0 THEN read.value ELSE 0

\* storage.get has answered: value = (read || 0), value++, and
\* storage.put('value', value) is awaited
IncrementLoaded(r) ==
  /\ Resumed(r, "increment", "get")
  /\ LET value == OrZero(requests[r].value) + 1
     IN  /\ counterValue' = Value(value)
         /\ Suspend(r, "increment", "put", value)
  /\ UNCHANGED <<agentVars, registryVars, councilVars, packVars,
                 counterTrace, counterResponse, toolResult, call>>

\* storage.put has answered and the handler returns its response
PutDone(r) ==
  /\ requests[r].at = "put"
  /\ Suspend(r, requests[r].op, "done", requests[r].value)
  /\ UNCHANGED <<agentVars, registryVars, councilVars, packVars,
                 counterVars, call>>

\* POST /initialize and POST /create, answered before the requests arrive
InitializeFirst ==
  /\ NoneIssued
  /\ \E data \in InitializeData : Initialize(data)

CreateFirst ==
  /\ NoneIssued
  /\ \E data \in CreatePayloads : Create(data)

\* an object is dropped from memory only while it serves no request
EvictIdle == AllDone /\ Evict

EvictPackIdle == AllDone /\ EvictPack

ConcurrentNext ==
  \/ InitializeFirst
  \/ CreateFirst
  \/ EvictIdle
  \/ EvictPackIdle
  \/ \E r \in Slots : DeliberateDeliver(r)
  \/ \E r \in Slots : DeliberateLoaded(r)
  \/ \E r \in Slots : DeliberateParsed(r)
  \/ \E r \in Slots : AddEntryDeliver(r)
  \/ \E r \in Slots : AddEntryLoaded(r)
  \/ \E r \in Slots : AddEntryParsed(r)
  \/ \E r \in Slots : IncrementDeliver(r)
  \/ \E r \in Slots : IncrementLoaded(r)
  \/ \E r \in Slots : PutDone(r)

\* the three objects as constructed, with nothing stored, beside an agent
\* that is not run
ConcurrentInit == Init /\ configured = Absent

ConcurrentSpec == ConcurrentInit /\ [][ConcurrentNext]_vars

(***************************************************************************)
(* One Counter, its requests handled one at a time, and the                *)
(* incrementCounter tool that calls it (durable-object-tools.ts)           *)
(***************************************************************************)
\* a /increment that adds two
FetchedAddingTwo(path) ==
  LET value == OrZero(counterValue) IN
  CASE path = "/increment" ->
         [stored |-> Value(value + 2),
          response |-> [status |-> 200, body |-> NumberToString(value + 2)]]
    [] path = "/decrement" ->
         [stored |-> Value(value - 1),
          response |-> [status |-> 200, body |-> NumberToString(value - 1)]]
    [] path = "/" ->
         [stored |-> counterValue,
          response |-> [status |-> 200, body |-> NumberToString(value)]]
    [] OTHER ->
         [stored |-> counterValue,
          response |-> [status |-> 404, body |-> NotFoundText]]

\* Counter.fetch, lines 11-29: what storage holds afterwards and the
\* response
Fetched(path) ==
  LET value == OrZero(counterValue) IN
  CASE path = "/increment" ->
         [stored |-> Value(value + 1),
          response |-> [status |-> 200, body |-> NumberToString(value + 1)]]
    [] path = "/decrement" ->
         [stored |-> Value(value - 1),
          response |-> [status |-> 200, body |-> NumberToString(value - 1)]]
    [] path = "/" ->
         [stored |-> counterValue,
          response |-> [status |-> 200, body |-> NumberToString(value)]]
    [] OTHER ->
         [stored |-> counterValue,
          response |-> [status |-> 404, body |-> NotFoundText]]

\* a request to the Counter
CounterFetch(path) ==
  /\ Len(counterTrace) < MaxCounterRequests
  /\ counterValue' = Fetched(path).stored
  /\ counterResponse' = Fetched(path).response
  /\ counterTrace' = Append(counterTrace, path)
  /\ UNCHANGED toolResult
  /\ UNCHANGED otherThanCounter

\* incrementCounterSchema: amount defaults to 1
ParseIncrementCounter(params) ==
  [amount |-> IF params.given THEN params.amount ELSE 1]

\* incrementCounter.execute, lines 30-44: one POST /increment whose body
\* the Counter does not read
IncrementCounter(params) ==
  LET amount == ParseIncrementCounter(params).amount
      fetched == Fetched("/increment")
      value == ParseInt(fetched.response.body)
  IN  /\ Len(counterTrace) < MaxCounterRequests
      /\ counterValue' = fetched.stored
      /\ counterResponse' = fetched.response
      /\ counterTrace' = Append(counterTrace, "/increment")
      /\ toolResult' = [kind |-> "value", amount |-> amount,
                        nan |-> value.nan, value |-> value.value]
      /\ UNCHANGED otherThanCounter

\* incrementCounter.execute, lines 45-50: fetch raised before the Counter
\* was reached
IncrementCounterFails(params) ==
  /\ Len(counterTrace) < MaxCounterRequests
  /\ toolResult' = [kind |-> "error",
                    amount |-> ParseIncrementCounter(params).amount,
                    nan |-> FALSE, value |-> 0]
  /\ UNCHANGED <<counterValue, counterTrace, counterResponse>>
  /\ UNCHANGED otherThanCounter

CounterNext ==
  \/ \E path \in CounterPaths : CounterFetch(path)
  \/ \E params \in IncrementCounterParams : IncrementCounter(params)
  \/ \E params \in IncrementCounterParams : IncrementCounterFails(params)

\* the Counter as constructed, with nothing stored, beside an agent that is
\* not run
CounterInit == Init /\ configured = Absent

CounterSpec == CounterInit /\ [][CounterNext]_vars

(***************************************************************************)
(* Properties                                                              *)
(***************************************************************************)
Last(seq) == seq[Len(seq)]

Count(seq, e) == Cardinality({i \in DOMAIN seq : seq[i] = e})

\* the current turn has been streamed to its end and appended to history
TurnComplete ==
  /\ iterations >= 1
  /\ pc \in {"exec", "yield", "top", "exit", "done"}

\* the fenced blocks of the current turn, in order of appearance
FencedBlocks(content) ==
  LET F[i \in 0 .. Len(content)] ==
        IF i = 0 THEN <<>>
        ELSE IF content[i].kind = "prose" THEN F[i - 1]
        ELSE Append(F[i - 1], content[i])
  IN  F[Len(content)]

\* the parameters a fenced call block carries (`parameters || {}`)
BlockParams(block) ==
  IF block.hasParams THEN block.parameters ELSE EmptyParams

\* C1: for every configured maxIterations n >= 0 (10 when none is
\* configured) one call of run performs at most n model invocations.
C1_AtMostMaxIterationsTurns ==
  modelCalls <= (IF configured = Absent THEN 10 ELSE configured)

\* C2: in every turn at most one tool call is dispatched and it is the one of
\* the first fenced block of the turn text; a turn without a fenced block
\* executes no tool, appends no synthetic user turn and is the last turn of
\* the run.
C2_OnlyFirstBlockDispatched ==
  LET blocks == FencedBlocks(fullContent) IN
  /\ Count(events, "execute") <= 1
  /\ Count(events, "execute") = 1 =>
       /\ blocks # <<>>
       /\ blocks[1].kind = "call"
       /\ tool.id = blocks[1].tool
       /\ toolCall.tool = blocks[1].tool
       /\ toolCall.parameters = BlockParams(blocks[1])
  /\ (TurnComplete /\ blocks = <<>>) =>
       /\ events = <<>>
       /\ Len(messages) = turnStart.messages + 1
       /\ Last(messages) = AssistantMsg(fullContent)
       /\ Len(fragments) - turnStart.fragments - Len(fullContent)
            = (IF "max" \in {fragments[i] : i \in DOMAIN fragments}
               THEN 1 ELSE 0)
       /\ pc \in {"exit", "yield", "done"}
       /\ pc = "yield" => pending.kind = "max"
       /\ modelCalls = iterations

\* a tool is being executed for a turn that holds two fenced tool calls
C2_Witness ==
  /\ pc = "exec"
  /\ Len(FencedBlocks(fullContent)) = 2
  /\ FencedBlocks(fullContent)[2].kind = "call"
  /\ FencedBlocks(fullContent)[2].tool # tool.id

\* C3: the tool call honored for a turn is its first well-formed block, also
\* when malformed fenced blocks come before it; a turn counts as "no tool
\* call" only when none of its fenced blocks is well-formed.
C3_FirstWellFormedHonored ==
  LET blocks == FencedBlocks(fullContent)
      wellFormed == {i \in DOMAIN blocks : blocks[i].kind = "call"}
  IN  (TurnComplete /\ pc # "top") =>
        IF wellFormed = {}
        THEN ~toolCall.found
        ELSE LET first == CHOOSE i \in wellFormed :
                            \A j \in wellFormed : i <= j
             IN  /\ toolCall.found
                 /\ toolCall.tool = blocks[first].tool
                 /\ toolCall.parameters = BlockParams(blocks[first])

\* the fields of `params` that fail `schema`, field by field
FailedFields(schema, params) ==
  {f \in DOMAIN schema :
     /\ params[f] # schema[f]
     /\ ~(schema[f] = "str" /\ params[f] = "op")}

\* fragments of the current turn that are not streamed chunks
ExtraFragments == Len(fragments) - turnStart.fragments - Len(fullContent)

\* the current turn asks for a registered tool with parameters that fail
\* the tool's schema
InvalidCallTurn ==
  /\ TurnComplete
  /\ FencedBlocks(fullContent) # <<>>
  /\ FencedBlocks(fullContent)[1].kind = "call"
  /\ tool.id = FencedBlocks(fullContent)[1].tool
  /\ FailedFields(tool.schema, BlockParams(FencedBlocks(fullContent)[1])) # {}

\* C4: a call of a registered tool with parameters that fail its schema
\* executes nothing and invokes no observer; one validation-error fragment
\* is emitted and exactly one user message listing every failed field is
\* appended after the assistant turn; the loop neither raises nor stops: it
\* returns to the loop test with the stop flag as stop() left it.
C4_ValidationFailureFoldedBack ==
  InvalidCallTurn =>
    LET failed == FailedFields(tool.schema,
                               BlockParams(FencedBlocks(fullContent)[1]))
    IN  /\ events = <<>>
        /\ thrown = "none"
        /\ pc \in {"yield", "top", "exit", "done"}
        /\ shouldStop["A1"] => stopAt.at # "none"
        /\ pc = "exit" => (shouldStop["A1"] \/ iterations >= maxIterations)
        /\ pc = "yield" /\ pending.kind # "max" =>
             /\ pending.kind = "validation"
             /\ ExtraFragments = 1
             /\ Last(fragments) = "validation"
             /\ Len(messages) = turnStart.messages + 1
             /\ Last(messages) = AssistantMsg(fullContent)
        /\ pc \in {"top", "exit", "done"} \/ pending.kind = "max" =>
             /\ Len(messages) = turnStart.messages + 2
             /\ messages[Len(messages) - 1] = AssistantMsg(fullContent)
             /\ Last(messages).role = "user"
             /\ Last(messages).kind = "validation"
             /\ Last(messages).tool = tool.id
             /\ Last(messages).ids = failed
             /\ fragments[turnStart.fragments + Len(fullContent) + 1]
                  = "validation"

\* a validation failure on three fields has been folded back and the loop
\* is at its next test
C4_Witness ==
  /\ InvalidCallTurn
  /\ pc = "top"
  /\ Cardinality(Last(messages).ids) = 3

\* the current turn asks for a tool id that is not registered
UnknownToolTurn ==
  /\ TurnComplete
  /\ FencedBlocks(fullContent) # <<>>
  /\ FencedBlocks(fullContent)[1].kind = "call"
  /\ FencedBlocks(fullContent)[1].tool \notin DOMAIN registry

\* the execute function of the tool called in the current turn has raised
ExecuteRaisedTurn ==
  /\ TurnComplete
  /\ events # <<>>
  /\ Last(events) = "execute!"

\* what C5 says of a failed turn, apart from the re-invocation of the model
C5_FailureFoldedBack(kind) ==
  /\ thrown = "none"
  /\ pc \in {"yield", "top", "exit", "done"}
  /\ pc = "yield" /\ pending.kind # "max" =>
       /\ pending.kind = kind
       /\ ExtraFragments = 1
       /\ Last(fragments) = kind
       /\ Len(messages) = turnStart.messages + 1
  /\ pc \in {"top", "exit", "done"} \/ pending.kind = "max" =>
       /\ Len(messages) = turnStart.messages + 2
       /\ messages[Len(messages) - 1] = AssistantMsg(fullContent)
       /\ Last(messages).role = "user"
       /\ Last(messages).kind = kind
       /\ kind = "unknown" =>
            /\ Last(messages).tool = FencedBlocks(fullContent)[1].tool
            /\ Last(messages).ids = DOMAIN registry
       /\ fragments[turnStart.fragments + Len(fullContent) + 1] = kind

\* C5 as stated: an unknown tool id and an exception raised by execute never
\* abort run, and handling them never sets the stop flag; one error fragment
\* is emitted, one user message describing the failure is appended (listing
\* the registered ids for an unknown id), and while the iteration budget is
\* not exhausted the model is invoked again: the loop is left after such a
\* turn only if the budget is exhausted.
C5_Original ==
  /\ UnknownToolTurn =>
       /\ C5_FailureFoldedBack("unknown")
       /\ shouldStop["A1"] => stopAt.at # "none"
       /\ pc = "exit" => iterations >= maxIterations
  /\ ExecuteRaisedTurn =>
       /\ C5_FailureFoldedBack("execError")
       /\ shouldStop["A1"] => (stopAt.at # "none" \/ tool.stops = "A1")
       /\ pc = "exit" => iterations >= maxIterations

\* C5 amended: an unknown tool id and an exception raised by execute never
\* abort run, and handling them never sets the stop flag (it is set only if
\* stop() was called or the raising tool is the agent's own finish); one
\* error fragment is emitted, one user message describing the failure is
\* appended (listing the registered ids for an unknown id), and the loop is
\* left after such a turn only if the budget is exhausted or the stop flag
\* is set: otherwise the model is invoked again.
C5_FailuresNeverAbort ==
  /\ UnknownToolTurn =>
       /\ C5_FailureFoldedBack("unknown")
       /\ shouldStop["A1"] => stopAt.at # "none"
       /\ pc = "exit" => (iterations >= maxIterations \/ shouldStop["A1"])
       /\ pc = "done" =>
            (iterations >= maxIterations \/ shouldStop["A1"])
  /\ ExecuteRaisedTurn =>
       /\ C5_FailureFoldedBack("execError")
       /\ shouldStop["A1"] => (stopAt.at # "none" \/ tool.stops = "A1")
       /\ pc = "exit" => (iterations >= maxIterations \/ shouldStop["A1"])
       /\ pc = "done" =>
            (iterations >= maxIterations \/ shouldStop["A1"])

\* an unknown tool id has been folded back, and the model is invoked again
\* for the turn after it
C5_Witness ==
  /\ pc = "stream"
  /\ iterations = 2
  /\ Last(messages).kind = "unknown"
  /\ Last(messages).ids = {"calculator", "finish"}
  /\ ~shouldStop["A1"]

\* C6: run raises to its caller if and only if the model-streaming
\* capability raises; the failure propagates unchanged, the model is not
\* invoked again, and no failure of parsing, lookup, validation, an observer
\* or a tool ever makes run raise.
C6_OnlyModelFailureRaises ==
  [][ /\ (pc' = "raised") <=> (thrown' # "none")
      /\ thrown' \in {"none", "ModelError"}
      /\ (pc # "raised" /\ pc' = "raised") => pc = "stream"
      /\ pc = "raised" =>
           /\ pc' = "raised"
           /\ thrown' = thrown
           /\ modelCalls' = modelCalls ]_vars

\* the model capability raises in a run in which a tool failure and a
\* validation failure had been folded back
C6_Witness ==
  /\ pc = "raised"
  /\ thrown = "ModelError"
  /\ \E i \in DOMAIN messages : messages[i].kind = "execError"
  /\ \E i \in DOMAIN messages : messages[i].kind = "validation"

\* no observer callback and no execute function has raised in this turn
NothingRaisedInTurn ==
  \A i \in DOMAIN events :
    events[i] \notin {"onToolCall!", "execute!", "onToolResult!"}

\* the current turn holds a well-formed call of `finish` with a valid reason
FinishTurn ==
  /\ TurnComplete
  /\ FencedBlocks(fullContent) # <<>>
  /\ FencedBlocks(fullContent)[1].kind = "call"
  /\ FencedBlocks(fullContent)[1].tool = "finish"
  /\ FailedFields(FinishSchema, BlockParams(FencedBlocks(fullContent)[1])) = {}

\* C7: a turn with a well-formed call of finish with a valid reason sets the
\* stop flag of the running loop, ends the run with a termination fragment
\* as its last fragment, appends no synthetic user turn, emits no "max
\* iterations reached" fragment and is the last turn of the run (stated for
\* the turns in which no observer raises).
C7_FinishEndsRun ==
  (FinishTurn /\ NothingRaisedInTurn) =>
    /\ pc \in {"exec", "yield", "exit", "done"}
    /\ shouldStop["A1"]
    /\ pc # "exec" =>
         /\ Last(fragments) = "finished"
         /\ ExtraFragments = 1
         /\ Len(messages) = turnStart.messages + 1
    /\ modelCalls = iterations

\* C8: whatever has been registered on the registry since the construction
\* of the agent, the tool its run finds under the id `finish` is its own
\* built-in finish tool, the one that sets its own stop flag.
C8_FinishIsOwnBuiltIn ==
  (TurnComplete /\ toolCall.found /\ toolCall.tool = "finish"
     /\ tool.id = "finish") =>
    tool = FinishTool("A1")

\* the condition under which C9 lets the "max iterations reached" fragment
\* be emitted
CutShort ==
  /\ iterations >= maxIterations
  /\ toolCall.found
  /\ toolCall.tool # "finish"
  /\ ~shouldStop["A1"]

\* C9: the "max iterations reached" fragment is emitted exactly when the
\* budget is exhausted by a turn that asked for a tool other than finish and
\* the stop flag is not set; a run whose last turn holds no tool call emits
\* no such fragment.
C9_MaxFragmentOnlyWhenCutShort ==
  /\ (pc = "yield" /\ pending.kind = "max") => CutShort
  /\ (pc = "done" /\ Count(fragments, "max") = 0) => ~CutShort

\* C10: a stop() that arrives during the streaming or the tool execution of
\* a turn does not change that turn: the result of a non-finish tool is
\* emitted as a tool-result fragment and appended as a user message, and no
\* termination fragment is emitted.
C10_StopObservedOnlyAtLoopTop ==
  (/\ TurnComplete
   /\ stopAt.at \in {"stream", "exec"}
   /\ stopAt.iter = iterations
   /\ tool.id \notin {"", "finish"}
   /\ events = <<"onToolCall", "execute", "returned", "onToolResult">>) =>
    /\ Count(fragments, "finished") = 0
    /\ fragments[turnStart.fragments + Len(fullContent) + 1] = "result"
    /\ pc = "yield" /\ pending.kind = "result" =>
         Len(messages) = turnStart.messages + 1
    /\ pc # "yield" \/ pending.kind = "max" =>
         /\ Len(messages) = turnStart.messages + 2
         /\ Last(messages) = ToolResultMsg(tool.id)

\* stop() has been called since the run began
StopArrived == stopAt.at \in {"stream", "exec", "yield"}

MaxChunks ==
  CHOOSE n \in 0 .. 8 :
    /\ \A t \in TurnTexts : Len(t) <= n
    /\ \E t \in TurnTexts : Len(t) = n

\* C12: when streams are finite, tool executions settle and the caller
\* keeps consuming, every started run ends (it returns or raises), whatever
\* the model asks for in its turns, and the fragments it has emitted are at
\* most those of maxIterations turns plus the closing fragment.
C12_RunTerminates ==
  /\ [](Len(fragments) <= maxIterations * (MaxChunks + 1) + 1)
  /\ [](pc = "top" => <>(pc \in {"done", "raised"}))

\* a run whose model asked for a tool in every turn has ended after ten
\* turns with the "max iterations reached" fragment
C12_Witness ==
  /\ pc = "done"
  /\ modelCalls = 10
  /\ Len(messages) = 21
  /\ Last(fragments) = "max"

\* the positions of the register calls made with the id
CallsWithId(id) == {i \in DOMAIN registerCalls : registerCalls[i].id = id}

\* C13: after any sequence of register calls, get(id) is the tool of the
\* latest register call with that id and is undefined for an id never
\* registered, and the registry holds one tool for each distinct id
\* registered and nothing else.
C13_GetReturnsLatestRegistered ==
  /\ \A id \in ToolIds :
       IF CallsWithId(id) = {}
       THEN /\ RegistryGet(tools, id) = NoTool
            /\ ~RegistryHas(tools, id)
       ELSE LET latest == CHOOSE i \in CallsWithId(id) :
                            \A j \in CallsWithId(id) : j <= i
            IN  RegistryGet(tools, id) = registerCalls[latest]
  /\ RegistryIds(tools) = {registerCalls[i].id : i \in DOMAIN registerCalls}
  /\ \A id \in RegistryIds(tools) : tools[id].id = id

\* three different tools have been registered under `finish`, the
\* calculator in between, and get returns the last of the three
C13_Witness ==
  /\ Len(registerCalls) = 4
  /\ registerCalls[1] = FinishTool("A1")
  /\ registerCalls[2] = otherFinishTool
  /\ registerCalls[3] = calculatorTool
  /\ registerCalls[4] = FinishTool("A2")
  /\ RegistryGet(tools, "finish") = FinishTool("A2")
  /\ Cardinality(RegistryIds(tools)) = 2

\* in the current turn a tool other than finish was executed and returned,
\* and no stop() call has been made since the run began
ToolReturnedTurn ==
  /\ TurnComplete
  /\ stopAt.at = "none"
  /\ tool.id \notin {"", "finish"}
  /\ Count(events, "returned") = 1

\* C14: in a turn with a well-formed call of a registered tool other than
\* finish with valid parameters, whose execute returns, and without any
\* stop() call, exactly one tool-result fragment is emitted after the
\* streamed chunks and history grows by exactly two messages: the assistant
\* turn, then a user message carrying the result.
C14_ToolResultFoldedBack ==
  ToolReturnedTurn =>
    /\ pc \in {"yield", "top", "exit", "done"}
    /\ fragments[turnStart.fragments + Len(fullContent) + 1] = "result"
    /\ ExtraFragments = 1 + (IF Last(fragments) = "max" THEN 1 ELSE 0)
    /\ pc = "yield" /\ pending.kind = "result" =>
         /\ Len(messages) = turnStart.messages + 1
         /\ Last(messages) = AssistantMsg(fullContent)
    /\ pc # "yield" \/ pending.kind = "max" =>
         /\ Len(messages) = turnStart.messages + 2
         /\ messages[Len(messages) - 1] = AssistantMsg(fullContent)
         /\ Last(messages) = ToolResultMsg(tool.id)

IsPrefix(s, t) == Len(s) <= Len(t) /\ SubSeq(t, 1, Len(s)) = s

\* the user inputs the history holds
UserInputs(history) ==
  Cardinality({i \in DOMAIN history : history[i].kind = "input"})

\* C15: every step other than clearHistory leaves the history it found as a
\* prefix of the history it leaves; the start of a run appends the user
\* input, once, before any model invocation of the run, and no other step
\* appends a user input; the first model invocation of a run finds the
\* user input at the end of the history; only clearHistory empties the
\* history and getMessages does not change it.
C15_HistoryAppendOnly ==
  [][ /\ ClearHistory \/ IsPrefix(messages, messages')
      /\ runs' # runs =>
           /\ messages' = Append(messages, UserInputMsg)
           /\ modelCalls' = 0
      /\ runs' = runs => UserInputs(messages') <= UserInputs(messages)
      /\ (modelCalls = 0 /\ modelCalls' = 1) =>
           /\ messages # <<>>
           /\ Last(messages) = UserInputMsg
           /\ messages' = messages
      /\ (messages # <<>> /\ messages' = <<>>) => ClearHistory
      /\ got' # got => (got' = messages /\ messages' = messages) ]_vars

\* two runs on one instance, a getMessages between them and a stop() during
\* the second: the history holds both user inputs and extends the copy
\* getMessages returned
C15_Witness ==
  /\ runs = 2
  /\ pc = "done"
  /\ stopAt.at \in {"stream", "exec", "yield"}
  /\ got # <<>>
  /\ IsPrefix(got, messages)
  /\ Len(got) < Len(messages)
  /\ UserInputs(got) = 1
  /\ UserInputs(messages) = 2

\* the session a request finds: what GET /get answers with
Session == Loaded

\* the step is an initialize request
InitializeStep == \E data \in InitializeData : Initialize(data)

\* the step is an addDeliberation request
AddDeliberationStep ==
  \E agentId \in CouncilAgentIds : AddDeliberation(agentId, "c1")

\* the place of a stage in the order
\* initializing < deliberating <= synthesizing_* < completed
StageRank(stage) ==
  CASE stage = "initializing" -> 0
    [] stage = "deliberating" -> 1
    [] stage \in {"synthesizing_round", "synthesizing_final"} -> 2
    [] stage = "completed" -> 3
    [] OTHER -> 4

\* C16: after an initialize, no addDeliberation, synthesize, complete or
\* get moves the stage of the session backward in the order initializing <
\* deliberating <= synthesizing_round / synthesizing_final < completed,
\* except addDeliberation, which may move a synthesizing stage back to
\* deliberating; a completed session stays completed.
C16_StageNeverMovesBackward ==
  [][ (Session.exists /\ ~InitializeStep) =>
        \/ StageRank(Session'.stage) >= StageRank(Session.stage)
        \/ /\ AddDeliberationStep
           /\ StageRank(Session.stage) = 2
           /\ Session'.stage = "deliberating" ]_vars

\* C17: between two initialize requests no addDeliberation, synthesize,
\* complete or get leaves currentRound lower than it found it.
C17_CurrentRoundNeverDecreases ==
  [][ (Session.exists /\ ~InitializeStep) =>
        Session'.currentRound >= Session.currentRound ]_vars

\* C18: in every state of an initialized session, 0 <= currentRound <=
\* maxRounds.
C18_CurrentRoundWithinMaxRounds ==
  Session.exists =>
    /\ 0 <= Session.currentRound
    /\ Session.currentRound <= Session.maxRounds

\* one of the three final fields of the session is present
FinalFieldPresent ==
  \/ Session.decision # Undefined
  \/ Session.consensusScore # Absent
  \/ Session.confidenceLevel # Absent

\* C19: decision, consensusScore and confidenceLevel are present only in a
\* session whose stage is completed.
C19_FinalFieldsOnlyWhenCompleted ==
  (Session.exists /\ FinalFieldPresent) => Session.stage = "completed"

\* C20: between two initialize requests, once complete has set decision,
\* consensusScore and confidenceLevel no later request, a second complete
\* included, changes their values.
C20_FinalFieldsSetOnce ==
  [][ (Session.exists /\ FinalFieldPresent /\ ~InitializeStep) =>
        /\ Session'.decision = Session.decision
        /\ Session'.consensusScore = Session.consensusScore
        /\ Session'.confidenceLevel = Session.confidenceLevel ]_vars

\* C21: on an initialized session synthesize(r) sets currentRound to r and
\* the stage to synthesizing_final when r >= maxRounds and to
\* synthesizing_round otherwise, and leaves question, maxRounds, agentIds,
\* deliberations and the three decision fields as they were.
C21_SynthesizeSetsRoundAndStage ==
  [][ \A r \in RoundArgs :
        (Session.exists /\ Synthesize(r)) =>
          /\ Session'.exists
          /\ Session'.currentRound = r
          /\ Session'.stage = IF r >= Session.maxRounds
                              THEN "synthesizing_final"
                              ELSE "synthesizing_round"
          /\ Session'.question = Session.question
          /\ Session'.maxRounds = Session.maxRounds
          /\ Session'.agentIds = Session.agentIds
          /\ Session'.deliberations = Session.deliberations
          /\ Session'.decision = Session.decision
          /\ Session'.consensusScore = Session.consensusScore
          /\ Session'.confidenceLevel = Session.confidenceLevel ]_vars

\* synthesize(3) has acted on a session with maxRounds = 3 that holds a
\* deliberation and a decision
C21_Witness ==
  /\ Session.exists
  /\ Session.maxRounds = 3
  /\ Session.currentRound = 3
  /\ Session.stage = "synthesizing_final"
  /\ Len(Session.deliberations) = 1
  /\ Session.decision = "approve"
  /\ Session.agentIds = <<"a1", "a2">>

\* C22: no sequence of initialize, addDeliberation, synthesize, complete and
\* get requests reaches a session, in memory or stored, whose stage is
\* failed.
C22_StageNeverFailed ==
  /\ sessionState.stage # "failed"
  /\ storage.stage # "failed"

\* a session that every kind of request has acted on: completed without a
\* deliberation, after a synthesize
C22_Witness ==
  /\ sessionState.exists
  /\ storage = sessionState
  /\ sessionState.stage = "completed"
  /\ sessionState.deliberations = <<>>
  /\ sessionState.currentRound = 2
  /\ sessionState.decision = "reject"

\* C23: initialize resets the session from every state: after it the stage
\* is initializing, currentRound is 0, deliberations is empty and decision,
\* consensusScore and confidenceLevel are absent; and no other request
\* brings the stage to initializing: after a step that is not an initialize
\* the stage is initializing only if the step left the session as it was.
C23_InitializeIsFullReset ==
  [][ /\ InitializeStep =>
           /\ Session'.exists
           /\ Session'.stage = "initializing"
           /\ Session'.currentRound = 0
           /\ Session'.deliberations = <<>>
           /\ Session'.decision = Undefined
           /\ Session'.consensusScore = Absent
           /\ Session'.confidenceLevel = Absent
           /\ storage' = sessionState'
      /\ (~InitializeStep /\ Session'.stage = "initializing") =>
           Session' = Session ]_vars

\* a freshly initialized session, in memory and stored
C23_Witness ==
  /\ sessionState.exists
  /\ storage = sessionState
  /\ sessionState.stage = "initializing"
  /\ sessionState.currentRound = 0
  /\ sessionState.deliberations = <<>>
  /\ sessionState.decision = Undefined
  /\ sessionState.question = "q2"
  /\ sessionState.maxRounds = 1

\* the snapshot of the knowledge pack: what the object holds, or, when it
\* holds nothing, what its storage holds
Pack == PackLoaded

\* neither an in-memory state nor a durable snapshot
PackUninitialized == ~packState.exists /\ ~packStorage.exists

\* the step is a create request
CreateStep == \E data \in CreatePayloads : Create(data)

\* the step is a finalize request
FinalizeStep == \E data \in FinalizeInputs : Finalize(data)

\* C24: every knowledge pack operation other than create (get, getStats and
\* searchEntries included) that finds neither an in-memory state nor a
\* durable snapshot returns an error to its caller and leaves the identity
\* uninitialized.
C24_UninitializedIsAnError ==
  [][ (PackUninitialized /\ ~CreateStep) =>
        /\ packResponse'.kind = "text"
        /\ packResponse'.status >= 400
        /\ PackUninitialized' ]_vars

\* content is empty, consensusScore is 0 and embeddingId is absent
Unfinalized ==
  /\ Pack.content = ""
  /\ Pack.consensusScore = 0
  /\ Pack.embeddingId = Undefined

\* C26: while finalize has not been called since the last create, content
\* is empty, consensusScore is 0 and embeddingId is absent: create leaves
\* the pack so, and no operation other than finalize ends it.
C26_EmptyUntilFinalized ==
  [][ /\ CreateStep => Unfinalized'
      /\ (Pack.exists /\ Unfinalized /\ ~FinalizeStep) => Unfinalized' ]_vars

\* no element occurs twice in an optional list
NoDuplicates(list) ==
  \A i, j \in DOMAIN list.items :
    list.items[i] = list.items[j] => i = j

\* C27: each of tags, sourceFiles and sourceArtifacts, when present, holds
\* no element twice.
C27_ListsAreSets ==
  Pack.exists =>
    /\ NoDuplicates(Pack.tags)
    /\ NoDuplicates(Pack.sourceFiles)
    /\ NoDuplicates(Pack.sourceArtifacts)

RECURSIVE ScoreTotal(_, _)
ScoreTotal(entries, n) ==
  IF n = 0 THEN 0 ELSE entries[n].score + ScoreTotal(entries, n - 1)

\* the scores of the entries, in order
ScoresOf(entries) == [i \in DOMAIN entries |-> entries[i].score]

Supplied(entry) ==
  [content |-> entry.content, agentId |-> entry.agentId,
   score |-> entry.score, sources |-> entry.sources]

\* C30: create leaves a pack without entries, each addEntry appends the
\* entry it was given after the entries already there, and finalize sets
\* content, consensusScore and embeddingId to its arguments and changes no
\* entry and no other field than updatedAt: after create, k addEntry calls
\* and finalize the snapshot holds the k entries in insertion order and
\* the arguments of finalize.
C30_EntriesKeptInOrderAndFinalized ==
  [][ /\ CreateStep => (Pack'.exists /\ Pack'.entries = <<>>)
      /\ \A entry \in EntryInputs :
           (Pack.exists /\ AddEntry(entry)) =>
             /\ Len(Pack'.entries) = Len(Pack.entries) + 1
             /\ SubSeq(Pack'.entries, 1, Len(Pack.entries)) = Pack.entries
             /\ Supplied(Last(Pack'.entries)) = entry
             /\ packStorage' = packState'
      /\ \A data \in FinalizeInputs :
           (Pack.exists /\ Finalize(data)) =>
             /\ Pack'.content = data.content
             /\ Pack'.consensusScore = data.consensusScore
             /\ Pack'.embeddingId = data.embeddingId
             /\ [Pack' EXCEPT !.content = "", !.consensusScore = 0,
                              !.embeddingId = Undefined, !.updatedAt = 0]
                  = [Pack EXCEPT !.content = "", !.consensusScore = 0,
                                 !.embeddingId = Undefined, !.updatedAt = 0]
             /\ packStorage' = packState' ]_vars

\* create, three addEntry calls and finalize have acted, in that order
C30_Witness ==
  /\ packState.exists
  /\ packStorage = packState
  /\ Len(packState.entries) = 3
  /\ Supplied(packState.entries[1]).content = "Xy"
  /\ Supplied(packState.entries[2]).content = "z"
  /\ Supplied(packState.entries[3]).content = "Xy"
  /\ packState.content = "synth"
  /\ packState.consensusScore = 7
  /\ packState.embeddingId = "emb1"
  /\ ~packState.tags.present

\* the requests of a route
RequestsOf(op) == {r \in Slots : requests[r].op = op}

\* the positions of a sequence of entries that hold the content of request r
Holding(entries, r) ==
  {i \in DOMAIN entries : entries[i].content = RequestContent(r)}

\* C25: requests issued concurrently against one object behave as if they
\* were executed one at a time: once k addDeliberation requests on an
\* initialized session (k addEntry requests on a pack, k increment requests
\* on a counter) have all been answered, however their steps interleaved,
\* the session holds exactly k more deliberations (the pack k more entries),
\* one of each request, in memory and in storage, and the counter is
\* exactly k higher.
C25_NoUpdateLost ==
  AllDone =>
    /\ Session.exists =>
         /\ Len(Session.deliberations) = Cardinality(RequestsOf("deliberate"))
         /\ \A r \in RequestsOf("deliberate") :
              Cardinality(Holding(Session.deliberations, r)) = 1
         /\ storage = Session
    /\ Pack.exists =>
         /\ Len(Pack.entries) = Cardinality(RequestsOf("add-entry"))
         /\ \A r \in RequestsOf("add-entry") :
              Cardinality(Holding(Pack.entries, r)) = 1
         /\ packStorage = Pack
    /\ OrZero(counterValue) = Cardinality(RequestsOf("increment"))

\* three addDeliberation requests were in flight at once and were answered,
\* the second one's body having been read first
C25_Witness ==
  /\ AllDone
  /\ RequestsOf("deliberate") = {1, 2, 3}
  /\ Len(sessionState.deliberations) = 3
  /\ sessionState.deliberations[1].content = "c2"
  /\ sessionState.deliberations[2].content = "c3"
  /\ sessionState.deliberations[3].content = "c1"

\* C37: on an initialized session in any stage, addDeliberation(agentId,
\* content) appends exactly one entry at the end of deliberations, with the
\* agentId and content given and round equal to currentRound at that
\* moment, sets the stage to deliberating, and leaves the entries already
\* there, their order, currentRound, maxRounds and question as they were.
C37_AddDeliberationAppendsOne ==
  [][ \A agentId \in CouncilAgentIds :
        (Session.exists /\ AddDeliberation(agentId, "c1")) =>
          LET n == Len(Session.deliberations)
          IN  /\ Len(Session'.deliberations) = n + 1
              /\ SubSeq(Session'.deliberations, 1, n) = Session.deliberations
              /\ Session'.deliberations[n + 1].round = Session.currentRound
              /\ Session'.deliberations[n + 1].agentId = agentId
              /\ Session'.deliberations[n + 1].content = "c1"
              /\ Session'.stage = "deliberating"
              /\ Session'.currentRound = Session.currentRound
              /\ Session'.maxRounds = Session.maxRounds
              /\ Session'.question = Session.question ]_vars

\* a second deliberation was added to a completed session after a
\* synthesize(2): it carries round 2 and follows the one of round 0
C37_Witness ==
  /\ Session.exists
  /\ Session.stage = "deliberating"
  /\ Session.decision = "approve"
  /\ Session.currentRound = 2
  /\ Len(Session.deliberations) = 2
  /\ Session.deliberations[1].round = 0
  /\ Session.deliberations[2].round = 2
  /\ Session.deliberations[2].agentId = "a2"

\* the positions of the iteration's events at which one of `calls` happened
Positions(calls) == {i \in DOMAIN events : events[i] \in calls}

\* the calls of the tool-call observer and of the tool-result observer,
\* whether they returned or raised
ToolCallObserved == Positions({"onToolCall", "onToolCall!"})

ToolResultObserved == Positions({"onToolResult", "onToolResult!"})

\* C36: in every iteration of run the tool-call observer, the tool's execute
\* and the tool-result observer are called in this order, each at most
\* once; the tool-call observer is called only for a call of a registered
\* tool whose parameters passed validation, the tool-result observer only
\* after execute returned without raising, and neither for an unknown tool
\* id or for a turn without a tool call.
C36_ObserverOrder ==
  /\ Cardinality(ToolCallObserved) <= 1
  /\ Cardinality(Positions({"execute"})) <= 1
  /\ Cardinality(ToolResultObserved) <= 1
  /\ \A i \in Positions({"execute"}) :
       \E j \in 1 .. (i - 1) : events[j] = "onToolCall"
  /\ \A i \in ToolResultObserved :
       /\ \E j \in 1 .. (i - 1) : events[j] = "returned"
       /\ Positions({"execute!"}) = {}
  /\ \A i \in Positions({"returned", "execute!"}) :
       \E j \in 1 .. (i - 1) : events[j] = "execute"
  /\ events # <<>> =>
       /\ FencedBlocks(fullContent) # <<>>
       /\ FencedBlocks(fullContent)[1].kind = "call"
       /\ FencedBlocks(fullContent)[1].tool = tool.id
       /\ tool.id \in DOMAIN registry
       /\ FailedFields(tool.schema,
                       BlockParams(FencedBlocks(fullContent)[1])) = {}
  /\ (TurnComplete /\ (UnknownToolTurn \/ FencedBlocks(fullContent) = <<>>))
       => events = <<>>

\* the second iteration of a run has called the tool-call observer, the
\* tool and the tool-result observer, and the result fragment is yielded
C36_Witness ==
  /\ iterations = 2
  /\ pc = "yield"
  /\ pending.kind = "result"
  /\ Len(events) = 4
  /\ events[1] = "onToolCall"
  /\ events[2] = "execute"
  /\ events[4] = "onToolResult"

\* user and assistant roles take turns in a history that starts with a user
\* message
Alternates(history) ==
  /\ history # <<>> => history[1].role = "user"
  /\ \A i \in 1 .. (Len(history) - 1) : history[i].role # history[i + 1].role

\* the history holds the user input of every run made so far (it was never
\* cleared after a run), and in each of them the model's stream ended
\* without raising: an assistant turn follows the input
CompleteRunsOnly(history) ==
  /\ UserInputs(history) = runs
  /\ \A i \in DOMAIN history :
       history[i].kind = "input" =>
         /\ i < Len(history)
         /\ history[i + 1].role = "assistant"

\* C38: between complete runs of one instance whose history was never
\* cleared, the history starts with a user message and no two consecutive
\* messages have the same role.
C38_HistoryAlternates ==
  (pc = "done" /\ CompleteRunsOnly(messages)) => Alternates(messages)

\* C39: when run is called while the stop flag is set and no stop() arrived
\* during the previous run (stop() was called after that run ended), the
\* flag is still set when the new run reaches its first loop test, so that
\* the run invokes the model zero times.
C39_StopBeforeRunHolds ==
  [][(pc \in {"done", "raised"} /\ stopAt = NoStop /\ shouldStop["A1"]
        /\ RunAgain)
       => shouldStop'["A1"]]_vars


\* the requests to a path among those made of the Counter so far
Requested(trace, path) == Count(trace, path)

\* C32: starting from nothing stored, after i requests to /increment and d
\* to /decrement, among reads and requests to an unknown path, the stored
\* value (nothing stored counting as 0) is i - d; an increment or decrement
\* answers with the new value as a decimal number, a read answers with
\* i - d and leaves storage as it was, and so does a request to an unknown
\* path.
C32_CounterTracksDifference ==
  [][LET difference == Requested(counterTrace', "/increment")
                       - Requested(counterTrace', "/decrement")
         returned == ParseInt(counterResponse'.body)
     IN  /\ OrZero(counterValue') = difference
         /\ \A path \in CounterPaths :
              CounterFetch(path) =>
                /\ path \in {"/increment", "/decrement", "/"} =>
                     /\ counterResponse'.status = 200
                     /\ ~returned.nan
                     /\ returned.value = difference
                /\ path \in {"/", "/other"} => counterValue' = counterValue
                /\ path = "/increment" =>
                     returned.value = OrZero(counterValue) + 1
                /\ path = "/decrement" =>
                     returned.value = OrZero(counterValue) - 1]_vars

\* two decrements, an increment and a read that answers -1
C32_Witness ==
  /\ counterTrace = <<"/decrement", "/decrement", "/increment", "/">>
  /\ counterValue = Value(-1)
  /\ counterResponse = [status |-> 200, body |-> <<"-", "1">>]

\* C33: an execution of the incrementCounter tool with amount n (1 when
\* none is given) that succeeds raises the value the Counter stores by n,
\* and the `value` it returns is the Counter's value after the increment.
C33_ToolAddsAmount ==
  [][\A params \in IncrementCounterParams :
       IncrementCounter(params) =>
         /\ OrZero(counterValue') =
              OrZero(counterValue) + ParseIncrementCounter(params).amount
         /\ toolResult'.kind = "value"
         /\ ~toolResult'.nan
         /\ toolResult'.value = OrZero(counterValue')]_vars


\* the step is an operation, other than get, that answers with success
SessionSucceeds == SessionMutation /\ sessionResponse'.status = 200

RoutedSucceeds == PackRouted /\ packResponse'.status = 200

MethodSucceeds == PackMethod /\ packResponse'.status = 200

\* get on an identity that holds no state, in memory or stored, answers
\* with the 404 of a state not found
GetOfNothingIsNotFound ==
  /\ (SessionRead /\ ~Session.exists) =>
       sessionResponse' = SessionResponse("text", 404)
  /\ (PackRead /\ ~Pack.exists) =>
       packResponse' = PackResponse("text", 404)

UpdateStep == \E updates \in UpdatePayloads : Update(updates)

\* C40: createdAt (and with it id, councilSessionId and createdBy, which
\* the same lines assign) keeps the value the last create gave it: no
\* operation other than create changes it, whatever partial state update is
\* given; and update leaves the entries and their order as they were.
C40_CreationFieldsKept ==
  [][(Pack.exists /\ Pack'.exists) =>
       /\ ~CreateStep => Pack'.createdAt = Pack.createdAt
       /\ UpdateStep => Pack'.entries = Pack.entries]_vars


\* C34: when an operation of the council session or of the knowledge pack
\* that changed the state held in memory returns with success, the durable
\* snapshot equals the whole state the object holds in memory; followed
\* statement by statement, addDeliberation and addEntry have called
\* storage.put once by then, after their changes in memory.
C34_SnapshotWrittenOnce ==
  [][/\ PutTakesEffect =>
          /\ call'.puts = 1
          /\ call.object = "session" =>
               /\ sessionState'.exists
               /\ storage' = sessionState'
               /\ sessionResponse' = SessionResponse("state", 200)
          /\ call.object = "pack" =>
               /\ packState'.exists
               /\ packStorage' = packState'
               /\ packResponse' = PackResponse("state", 200)
     /\ (sessionState' # sessionState /\ sessionResponse'.status = 200
         /\ SessionMutationBetween) =>
          /\ sessionState'.exists
          /\ storage' = sessionState'
     /\ (packState' # packState /\ packResponse'.status = 200
         /\ (PackRoutedBetween \/ PackMethodBetween)) =>
          /\ packState'.exists
          /\ packStorage' = packState']_vars

\* a second addEntry has returned: the snapshot holds both entries
C34_Witness ==
  /\ call = [object |-> "pack", at |-> "done", puts |-> 1, made |-> 1]
  /\ Len(packState.entries) = 2
  /\ packStorage = packState

\* C35: once the put of a mutating operation did not take effect, because
\* it was rejected or because the object was restarted before it, what a
\* later get (or any later operation) finds as the state of the identity is
\* the durable snapshot, without the change the operation made in memory.
C35_UnpersistedNotObservable ==
  call.at \in {"failed", "crashed"} =>
    /\ Session = storage
    /\ Pack = packStorage

====
